---- MODULE Spec2Model ----
(***************************************************************************)
(* Database access pipeline of the socrates extension: the circuit         *)
(* breaker (DatabaseCircuitBreaker.ts), the connection manager             *)
(* (DatabaseConnectionManager, in PlatformPathResolver.ts), the platform   *)
(* resolver and the Reader facade (DatabaseReader.ts).                     *)
(*                                                                         *)
(* Time is Date.now() counted in ticks of 30 s, so RETRY_DELAY (30000 ms)  *)
(* is 1 tick and the default resetTimeout (60000 ms) is 2 ticks.  The      *)
(* clock starts at 1: Date.now() is never 0, and the code's truthiness     *)
(* tests (!this.lastFailureTime, lastAttempt && ...) read 0 like           *)
(* undefined, so 0 stands for "undefined" in every timestamp field.        *)
(***************************************************************************)
EXTENDS Integers, Sequences, FiniteSets, TLC

VARIABLES
    now,        \* Date.now(), in ticks
    cb,         \* the DatabaseCircuitBreaker object's fields
    calls,      \* the execute() calls in flight: position and attempt number
    ret,        \* the CircuitBreakerResult most recently returned by execute()
    failedRun,  \* history: execute() calls that ended in failure since the last success or reset()
    cm,         \* the DatabaseConnectionManager object's maps
    handles,    \* the better-sqlite3 handles: the live ones (close() not yet called), how many were opened, the unusable ones, the ones whose close() throws
    files,      \* the file system: what is found at each database path
    conn,       \* the getConnection() calls in flight
    cret,       \* the ConnectionResult most recently returned by getConnection()
    lastFailAt, \* history: when a connection attempt for a path last failed
    disposedSince, \* history: the paths for which dispose() ran after that failure
    nConn,      \* history: getConnection() calls started
    host,       \* the machine and the editor: platform, APPDATA, open workspace, storage directories
    stored,     \* the ItemTable row holding the sessions
    reader,     \* the DatabaseReader's configuration and its components' caches
    pending,    \* the internal operation each execute() call of the Reader runs
    rret,       \* what the Reader's public operation most recently gave back
    queryFailRun, \* history: consecutive session calls whose query step failed
    nReader,    \* history: Reader calls started
    backoff,    \* the configured retryDelay and the retry delay most recently calculated
    probe,      \* the call most recently made to a component on its own: its arguments and its result
    fm          \* the FileManager's world: the export files and temporary files on disk, the clock that names them, the writeSession calls in flight

breakerVars == <<cb, calls, ret, failedRun>>
connVars == <<cm, handles, files, conn, cret, lastFailAt, disposedSince, nConn>>
readerVars == <<host, stored, reader, pending, rret, queryFailRun, nReader>>

----------------------------------------------------------------------------
(* Bounds of the model *)

MaxTime == 6
MaxCalls == 5
MaxConnCalls == 3
MaxConnTime == 2
MaxReaderCalls == 3
MaxReaderTime == 2

CallIds == {1, 2}
\* The Reader's session calls are issued one after the other.
ReaderCallIds == {1}
ConnIds == {1, 2}
Paths == {"P", "Q", "R"}
\* The paths getConnection is called with directly, and the one whose file the
\* environment rewrites meanwhile.
ConnPaths == {"P", "Q"}
ChangingPaths == {"P"}

----------------------------------------------------------------------------
(* DatabaseCircuitBreaker *)

CLOSED == "CLOSED"
OPEN == "OPEN"
HALF_OPEN == "HALF_OPEN"

\* The configuration the breaker is constructed with: the constructor merges
\* its argument over DEFAULT_CONFIG, and the model takes
\* new DatabaseCircuitBreaker({failureThreshold: 3, monitoringWindow: 90000,
\* successThreshold: 2, maxRetries: 1}); resetTimeout keeps its default,
\* 60000 ms.  Times are in ticks.
failureThreshold == 3
resetTimeout == 2
monitoringWindow == 3
successThreshold == 2
maxRetries == 1

InitBreaker ==
    [state |-> CLOSED, failureCount |-> 0, successCount |-> 0,
     lastFailureTime |-> 0, totalCalls |-> 0, totalFailures |-> 0,
     totalSuccesses |-> 0, consecutiveSuccesses |-> 0]

setState(b, newState) == [b EXCEPT !.state = newState]

cleanupOldFailures(b, t) ==
    IF b.lastFailureTime = 0
    THEN b
    ELSE IF b.lastFailureTime < t - monitoringWindow
         THEN [b EXCEPT !.failureCount = 0]
         ELSE b

\* onSuccess with the HALF_OPEN test written as "not CLOSED".
onSuccess_ClosesFromOpen(b, t) ==
    LET b1 == [b EXCEPT !.successCount = @ + 1,
                        !.totalSuccesses = @ + 1,
                        !.consecutiveSuccesses = @ + 1]
        b2 == cleanupOldFailures(b1, t)
    IN  IF b2.state # CLOSED
        THEN IF b2.consecutiveSuccesses >= successThreshold
             THEN [setState(b2, CLOSED) EXCEPT !.failureCount = 0,
                                               !.consecutiveSuccesses = 0]
             ELSE b2
        ELSE [b2 EXCEPT !.failureCount = 0]

\* onSuccess that closes a HALF_OPEN breaker on any success.
onSuccess_AnySuccessCloses(b, t) ==
    LET b1 == [b EXCEPT !.successCount = @ + 1,
                        !.totalSuccesses = @ + 1,
                        !.consecutiveSuccesses = @ + 1]
        b2 == cleanupOldFailures(b1, t)
    IN  IF b2.state = HALF_OPEN
        THEN [setState(b2, CLOSED) EXCEPT !.failureCount = 0,
                                          !.consecutiveSuccesses = 0]
        ELSE IF b2.state = CLOSED
             THEN [b2 EXCEPT !.failureCount = 0]
             ELSE b2

\* onSuccess without the HALF_OPEN branch.
onSuccess_NeverCloses(b, t) ==
    LET b1 == [b EXCEPT !.successCount = @ + 1,
                        !.totalSuccesses = @ + 1,
                        !.consecutiveSuccesses = @ + 1]
        b2 == cleanupOldFailures(b1, t)
    IN  IF b2.state = CLOSED
        THEN [b2 EXCEPT !.failureCount = 0]
        ELSE b2

onSuccess(b, t) ==
    LET b1 == [b EXCEPT !.successCount = @ + 1,
                        !.totalSuccesses = @ + 1,
                        !.consecutiveSuccesses = @ + 1]
        b2 == cleanupOldFailures(b1, t)
    IN  IF b2.state = HALF_OPEN
        THEN IF b2.consecutiveSuccesses >= successThreshold
             THEN [setState(b2, CLOSED) EXCEPT !.failureCount = 0,
                                               !.consecutiveSuccesses = 0]
             ELSE b2
        ELSE IF b2.state = CLOSED
             THEN [b2 EXCEPT !.failureCount = 0]
             ELSE b2

\* onFailure with the threshold compared by > instead of >=.
onFailure_StrictThreshold(b, t) ==
    LET b1 == [b EXCEPT !.failureCount = @ + 1,
                        !.totalFailures = @ + 1,
                        !.consecutiveSuccesses = 0,
                        !.lastFailureTime = t]
        b2 == cleanupOldFailures(b1, t)
    IN  IF b2.state \in {CLOSED, HALF_OPEN} /\ b2.failureCount > failureThreshold
        THEN setState(b2, OPEN)
        ELSE b2

onFailure(b, t) ==
    LET b1 == [b EXCEPT !.failureCount = @ + 1,
                        !.totalFailures = @ + 1,
                        !.consecutiveSuccesses = 0,
                        !.lastFailureTime = t]
        b2 == cleanupOldFailures(b1, t)
    IN  IF b2.state \in {CLOSED, HALF_OPEN} /\ b2.failureCount >= failureThreshold
        THEN setState(b2, OPEN)
        ELSE b2

\* shouldAttemptReset without the reset timeout.
shouldAttemptReset_NoTimeout(b, t) ==
    IF b.lastFailureTime = 0
    THEN TRUE
    ELSE (t - b.lastFailureTime) >= 0

shouldAttemptReset(b, t) ==
    IF b.lastFailureTime = 0
    THEN TRUE
    ELSE (t - b.lastFailureTime) >= resetTimeout

reset(b) ==
    [setState(b, CLOSED) EXCEPT !.failureCount = 0,
                                !.successCount = 0,
                                !.consecutiveSuccesses = 0,
                                !.lastFailureTime = 0]

\* open() without the stamp of the last-failure time.
open_NoStamp(b, t) == setState(b, OPEN)

open(b, t) == [setState(b, OPEN) EXCEPT !.lastFailureTime = t]

NoResult == [call |-> 0, success |-> FALSE, rejected |-> FALSE,
             invoked |-> 0, retryAttempt |-> 0, circuitState |-> CLOSED]

Idle == [pc |-> "idle", attempt |-> 0]

\* execute(): count the call, reject it when the circuit is OPEN and the reset
\* timeout has not elapsed, otherwise enter executeWithRetries, whose first
\* operation() is invoked before the call first suspends.
Execute(c) ==
    /\ calls[c].pc = "idle"
    /\ cb.totalCalls < MaxCalls
    /\ LET b1 == [cb EXCEPT !.totalCalls = @ + 1]
       IN  IF b1.state = OPEN /\ ~shouldAttemptReset(b1, now)
           THEN /\ cb' = b1
                /\ ret' = [call |-> c, success |-> FALSE, rejected |-> TRUE,
                           invoked |-> 0, retryAttempt |-> 0,
                           circuitState |-> b1.state]
                /\ UNCHANGED calls
           ELSE /\ cb' = IF b1.state = OPEN THEN setState(b1, HALF_OPEN) ELSE b1
                /\ calls' = [calls EXCEPT ![c] = [pc |-> "run", attempt |-> 0]]
                /\ UNCHANGED ret
    /\ UNCHANGED <<now, failedRun>>
    /\ UNCHANGED connVars
    /\ UNCHANGED readerVars
    /\ UNCHANGED backoff
    /\ UNCHANGED probe
    /\ UNCHANGED fm

\* executeWithRetries: the awaited operation() resolves.
AttemptSucceeds(c) ==
    /\ calls[c].pc = "run"
    /\ cb' = onSuccess(cb, now)
    /\ ret' = [call |-> c, success |-> TRUE, rejected |-> FALSE,
               invoked |-> calls[c].attempt + 1,
               retryAttempt |-> calls[c].attempt,
               circuitState |-> cb'.state]
    /\ calls' = [calls EXCEPT ![c] = Idle]
    /\ failedRun' = 0
    /\ UNCHANGED now
    /\ UNCHANGED connVars
    /\ UNCHANGED readerVars
    /\ UNCHANGED backoff
    /\ UNCHANGED probe
    /\ UNCHANGED fm

\* AttemptFails with the loop bound off by one (attempt <= maxRetries + 1).
AttemptFails_OneMoreRetry(c) ==
    /\ calls[c].pc = "run"
    /\ IF calls[c].attempt < maxRetries + 1
       THEN /\ calls' = [calls EXCEPT ![c].pc = "sleep"]
            /\ UNCHANGED <<cb, ret, failedRun>>
       ELSE /\ cb' = onFailure(cb, now)
            /\ ret' = [call |-> c, success |-> FALSE, rejected |-> FALSE,
                       invoked |-> calls[c].attempt + 1,
                       retryAttempt |-> maxRetries,
                       circuitState |-> cb'.state]
            /\ calls' = [calls EXCEPT ![c] = Idle]
            /\ failedRun' = failedRun + 1
    /\ UNCHANGED now
    /\ UNCHANGED connVars
    /\ UNCHANGED readerVars
    /\ UNCHANGED backoff
    /\ UNCHANGED probe
    /\ UNCHANGED fm

\* AttemptFails that reports every failed attempt to onFailure.
AttemptFails_CountsEachAttempt(c) ==
    /\ calls[c].pc = "run"
    /\ cb' = onFailure(cb, now)
    /\ IF calls[c].attempt < maxRetries
       THEN /\ calls' = [calls EXCEPT ![c].pc = "sleep"]
            /\ UNCHANGED <<ret, failedRun>>
       ELSE /\ ret' = [call |-> c, success |-> FALSE, rejected |-> FALSE,
                       invoked |-> calls[c].attempt + 1,
                       retryAttempt |-> maxRetries,
                       circuitState |-> cb'.state]
            /\ calls' = [calls EXCEPT ![c] = Idle]
            /\ failedRun' = failedRun + 1
    /\ UNCHANGED now
    /\ UNCHANGED connVars
    /\ UNCHANGED readerVars
    /\ UNCHANGED backoff
    /\ UNCHANGED probe
    /\ UNCHANGED fm

\* executeWithRetries: the awaited operation() rejects; sleep before the next
\* attempt, or account the failure after the last one.
AttemptFails_AbortsWhenOpen(c) ==
    /\ calls[c].pc = "run"
    /\ IF cb.state = OPEN
       THEN /\ ret' = [call |-> c, success |-> FALSE, rejected |-> TRUE,
                       invoked |-> calls[c].attempt + 1,
                       retryAttempt |-> calls[c].attempt,
                       circuitState |-> cb.state]
            /\ calls' = [calls EXCEPT ![c] = Idle]
            /\ UNCHANGED <<cb, failedRun>>
       ELSE IF calls[c].attempt < maxRetries
            THEN /\ calls' = [calls EXCEPT ![c].pc = "sleep"]
                 /\ UNCHANGED <<cb, ret, failedRun>>
            ELSE /\ cb' = onFailure(cb, now)
                 /\ ret' = [call |-> c, success |-> FALSE, rejected |-> FALSE,
                            invoked |-> calls[c].attempt + 1,
                            retryAttempt |-> maxRetries,
                            circuitState |-> cb'.state]
                 /\ calls' = [calls EXCEPT ![c] = Idle]
                 /\ failedRun' = failedRun + 1
    /\ UNCHANGED now
    /\ UNCHANGED connVars
    /\ UNCHANGED readerVars
    /\ UNCHANGED backoff
    /\ UNCHANGED probe
    /\ UNCHANGED fm

AttemptFails(c) ==
    /\ calls[c].pc = "run"
    /\ IF calls[c].attempt < maxRetries
       THEN /\ calls' = [calls EXCEPT ![c].pc = "sleep"]
            /\ UNCHANGED <<cb, ret, failedRun>>
       ELSE /\ cb' = onFailure(cb, now)
            /\ ret' = [call |-> c, success |-> FALSE, rejected |-> FALSE,
                       invoked |-> calls[c].attempt + 1,
                       retryAttempt |-> maxRetries,
                       circuitState |-> cb'.state]
            /\ calls' = [calls EXCEPT ![c] = Idle]
            /\ failedRun' = failedRun + 1
    /\ UNCHANGED now
    /\ UNCHANGED connVars
    /\ UNCHANGED readerVars
    /\ UNCHANGED backoff
    /\ UNCHANGED probe
    /\ UNCHANGED fm

\* executeWithRetries: the backoff sleep is over, the next attempt invokes
\* operation() again.
RetryAfterSleep(c) ==
    /\ calls[c].pc = "sleep"
    /\ calls' = [calls EXCEPT ![c] = [pc |-> "run", attempt |-> @.attempt + 1]]
    /\ UNCHANGED <<now, cb, ret, failedRun>>
    /\ UNCHANGED connVars
    /\ UNCHANGED readerVars
    /\ UNCHANGED backoff
    /\ UNCHANGED probe
    /\ UNCHANGED fm

ManualReset ==
    /\ cb' = reset(cb)
    /\ failedRun' = 0
    /\ UNCHANGED <<now, calls, ret>>
    /\ UNCHANGED connVars
    /\ UNCHANGED readerVars
    /\ UNCHANGED backoff
    /\ UNCHANGED probe
    /\ UNCHANGED fm

ManualOpen ==
    /\ cb' = open(cb, now)
    /\ UNCHANGED <<now, calls, ret, failedRun>>
    /\ UNCHANGED connVars
    /\ UNCHANGED readerVars
    /\ UNCHANGED backoff
    /\ UNCHANGED probe
    /\ UNCHANGED fm

Tick ==
    /\ now < MaxTime
    /\ now' = now + 1
    /\ UNCHANGED breakerVars
    /\ UNCHANGED connVars
    /\ UNCHANGED readerVars
    /\ UNCHANGED backoff
    /\ UNCHANGED probe
    /\ UNCHANGED fm

----------------------------------------------------------------------------
(* DatabaseConnectionManager *)

\* 30000 ms between retry attempts, in ticks
RETRY_DELAY == 1

SQLITE_HEADER == "SQLite format 3"

\* What fs finds at a path: existsSync, stats.isFile(), access(R_OK), and the
\* first 15 bytes of the content read as ASCII.
ValidFile == [exists |-> TRUE, isFile |-> TRUE, readable |-> TRUE,
              header |-> "SQLite format 3"]
MissingFile == [exists |-> FALSE, isFile |-> FALSE, readable |-> FALSE,
                header |-> ""]
Directory == [exists |-> TRUE, isFile |-> FALSE, readable |-> TRUE,
              header |-> ""]
UnreadableFile == [exists |-> TRUE, isFile |-> TRUE, readable |-> FALSE,
                   header |-> "SQLite format 3"]
NotSQLiteFile == [exists |-> TRUE, isFile |-> TRUE, readable |-> TRUE,
                  header |-> "NotASQLiteFile!"]
FileKinds == {ValidFile, MissingFile, Directory, UnreadableFile, NotSQLiteFile}
\* The kinds the workspace database takes while the Reader is used.
ReaderFileKinds == {ValidFile, MissingFile, NotSQLiteFile}

\* validateDatabaseFile without the signature check.
validateDatabaseFile_NoSignature(f) ==
    IF ~f.exists THEN FALSE
    ELSE IF ~f.isFile THEN FALSE
    ELSE f.readable

\* validateDatabaseFile(databasePath).isAccessible
validateDatabaseFile(f) ==
    IF ~f.exists THEN FALSE
    ELSE IF ~f.isFile THEN FALSE
    ELSE IF ~f.readable THEN FALSE
    ELSE f.header = SQLITE_HEADER

\* isConnectionValid(database): the SELECT 1 round trip does not throw
isConnectionValid(h, hs) == h \notin hs.broken

InitManager ==
    [activeConnections |-> [p \in Paths |-> 0],
     lastConnectionAttempt |-> [p \in Paths |-> 0]]

InitHandles == [live |-> {}, opened |-> 0, broken |-> {}, stuck |-> {}]

\* A state of the manager together with the handles it works on, and whether
\* the method at work has thrown.
World(m, hs) == [cm |-> m, handles |-> hs, thrown |-> FALSE]

\* connection.close() on handle h: the handle is no longer the manager's to
\* use, whether close() returns or throws.
closeHandle(hs, h) ==
    [hs EXCEPT !.live = {x \in @ : x.id # h}, !.broken = @ \ {h}]

\* closeConnection without its try/catch/finally: an error of close() leaves
\* the method before the pool entry is deleted.
closeConnection_ThrowPropagates(w, p) ==
    LET h == w.cm.activeConnections[p]
    IN  IF h # 0
        THEN IF h \in w.handles.stuck
             THEN [w EXCEPT !.handles = closeHandle(w.handles, h),
                            !.thrown = TRUE]
             ELSE World([w.cm EXCEPT !.activeConnections[p] = 0],
                        closeHandle(w.handles, h))
        ELSE w

\* closeConnection(databasePath): close the pooled handle, if any; an error
\* of close() is caught and logged, and the pool entry is deleted in either
\* case (finally).
closeConnection(w, p) ==
    LET h == w.cm.activeConnections[p]
    IN  IF h # 0
        THEN World([w.cm EXCEPT !.activeConnections[p] = 0],
                   closeHandle(w.handles, h))
        ELSE w

\* The loop of closeAllConnections over the keys ps; an error thrown by
\* closeConnection would end it.
RECURSIVE closeEach(_, _)
closeEach(w, ps) ==
    IF ps = {} \/ w.thrown THEN w
    ELSE LET p == CHOOSE q \in ps : TRUE
         IN  closeEach(closeConnection(w, p), ps \ {p})

\* closeAllConnections(): closeConnection for every key of the pool
closeAllConnections(w) ==
    closeEach(w, {p \in Paths : w.cm.activeConnections[p] # 0})

\* dispose(): closeAllConnections(), then lastConnectionAttempt.clear()
dispose(w) ==
    LET w1 == closeAllConnections(w)
    IN  IF w1.thrown
        THEN w1
        ELSE World([w1.cm EXCEPT
                       !.lastConnectionAttempt = [p \in Paths |-> 0]],
                   w1.handles)

\* The retry check at the head of getConnection.
inCoolDown(m, p, t) ==
    LET lastAttempt == m.lastConnectionAttempt[p]
    IN  lastAttempt # 0 /\ (t - lastAttempt) < RETRY_DELAY

\* getConnectionBegin that leaves an unusable pooled handle where it is.
getConnectionBegin_KeepsInvalid(w, p, t) ==
    IF inCoolDown(w.cm, p, t)
    THEN [w |-> w, kind |-> "cooldown", handle |-> 0]
    ELSE IF w.cm.activeConnections[p] # 0
              /\ isConnectionValid(w.cm.activeConnections[p], w.handles)
         THEN [w |-> w, kind |-> "pooled",
               handle |-> w.cm.activeConnections[p]]
         ELSE [w |-> w, kind |-> "validate", handle |-> 0]

\* getConnection up to its first suspension: the retry check, then the pooled
\* handle, returned when it is valid and closed when it is not.
getConnectionBegin(w, p, t) ==
    IF inCoolDown(w.cm, p, t)
    THEN [w |-> w, kind |-> "cooldown", handle |-> 0]
    ELSE IF w.cm.activeConnections[p] # 0
         THEN IF isConnectionValid(w.cm.activeConnections[p], w.handles)
              THEN [w |-> w, kind |-> "pooled",
                    handle |-> w.cm.activeConnections[p]]
              ELSE [w |-> closeConnection(w, p), kind |-> "validate",
                    handle |-> 0]
         ELSE [w |-> w, kind |-> "validate", handle |-> 0]

recordAttempt(w, p, t) ==
    World([w.cm EXCEPT !.lastConnectionAttempt[p] = t], w.handles)

\* getConnectionEnd whose outer catch does not record the failed attempt.
getConnectionEnd_OpenFailNotRecorded(w, p, t, accessible, outcome) ==
    IF ~accessible
    THEN [w |-> recordAttempt(w, p, t), kind |-> "inaccessible", handle |-> 0]
    ELSE IF outcome = "openThrows"
    THEN [w |-> w, kind |-> "openfail", handle |-> 0]
    ELSE LET h == w.handles.opened + 1
             opened == World(w.cm, [w.handles EXCEPT
                                       !.opened = h,
                                       !.live = @ \cup {[id |-> h, path |-> p]}])
         IN  IF outcome = "testThrows"
             THEN [w |-> recordAttempt(
                            World(opened.cm,
                                  [opened.handles EXCEPT
                                      !.live = {x \in @ : x.id # h}]),
                            p, t),
                   kind |-> "testfail", handle |-> 0]
             ELSE [w |-> World([opened.cm EXCEPT !.activeConnections[p] = h],
                               opened.handles),
                   kind |-> "opened", handle |-> h]

\* getConnection after validateDatabaseFile has returned `accessible`:
\* `outcome` is what new Database() and the test queries do ("openThrows",
\* "testThrows" or "ok").
getConnectionEnd(w, p, t, accessible, outcome) ==
    IF ~accessible
    THEN [w |-> recordAttempt(w, p, t), kind |-> "inaccessible", handle |-> 0]
    ELSE IF outcome = "openThrows"
    THEN [w |-> recordAttempt(w, p, t), kind |-> "openfail", handle |-> 0]
    ELSE LET h == w.handles.opened + 1
             opened == World(w.cm, [w.handles EXCEPT
                                       !.opened = h,
                                       !.live = @ \cup {[id |-> h, path |-> p]}])
         IN  IF outcome = "testThrows"
             THEN [w |-> recordAttempt(
                            World(opened.cm,
                                  [opened.handles EXCEPT
                                      !.live = {x \in @ : x.id # h}]),
                            p, t),
                   kind |-> "testfail", handle |-> 0]
             ELSE [w |-> World([opened.cm EXCEPT !.activeConnections[p] = h],
                               opened.handles),
                   kind |-> "opened", handle |-> h]

OpenOutcomes == {"ok", "openThrows", "testThrows"}
\* What opening the workspace database does while the Reader is used.
ReaderOpenOutcomes == {"ok", "openThrows"}

NoConnResult == [path |-> "P", success |-> FALSE, kind |-> "none", handle |-> 0]

ConnResult(p, kind, h) ==
    [path |-> p, success |-> kind \in {"pooled", "opened"},
     kind |-> kind, handle |-> h]

ConnIdle == [pc |-> "idle", path |-> "P", accessible |-> FALSE]

\* getConnection(databasePath) is called; it returns at once (cool-down, or a
\* valid pooled handle) or suspends in validateDatabaseFile.
GetConnection(k, p) ==
    /\ conn[k].pc = "idle"
    /\ nConn < MaxConnCalls
    /\ nConn' = nConn + 1
    /\ LET r == getConnectionBegin(World(cm, handles), p, now)
       IN  /\ cm' = r.w.cm
           /\ handles' = r.w.handles
           /\ IF r.kind = "validate"
              THEN /\ conn' = [conn EXCEPT ![k] = [pc |-> "validating", path |-> p,
                                                   accessible |-> FALSE]]
                   /\ UNCHANGED cret
              ELSE /\ cret' = ConnResult(p, r.kind, r.handle)
                   /\ UNCHANGED conn
    /\ UNCHANGED <<now, files, lastFailAt, disposedSince>>
    /\ UNCHANGED breakerVars
    /\ UNCHANGED readerVars
    /\ UNCHANGED backoff
    /\ UNCHANGED probe
    /\ UNCHANGED fm

\* validateDatabaseFile reads the file system.
ValidateFile(k) ==
    /\ conn[k].pc = "validating"
    /\ conn' = [conn EXCEPT ![k].pc = "validated",
                            ![k].accessible = validateDatabaseFile(files[conn[k].path])]
    /\ UNCHANGED <<now, cm, handles, files, cret, lastFailAt, disposedSince, nConn>>
    /\ UNCHANGED breakerVars
    /\ UNCHANGED readerVars
    /\ UNCHANGED backoff
    /\ UNCHANGED probe
    /\ UNCHANGED fm

\* getConnection resumes after the validation: it fails, or opens a handle,
\* tests it and registers it in the pool.
FinishGetConnection(k, outcome) ==
    /\ conn[k].pc = "validated"
    /\ LET p == conn[k].path
           r == getConnectionEnd(World(cm, handles), p, now,
                                 conn[k].accessible, outcome)
       IN  /\ cm' = r.w.cm
           /\ handles' = r.w.handles
           /\ cret' = ConnResult(p, r.kind, r.handle)
           /\ lastFailAt' = IF r.kind = "opened" THEN lastFailAt
                            ELSE [lastFailAt EXCEPT ![p] = now]
           /\ disposedSince' = IF r.kind = "opened" THEN disposedSince
                               ELSE disposedSince \ {p}
    /\ conn' = [conn EXCEPT ![k] = ConnIdle]
    /\ UNCHANGED <<now, files, nConn>>
    /\ UNCHANGED breakerVars
    /\ UNCHANGED readerVars
    /\ UNCHANGED backoff
    /\ UNCHANGED probe
    /\ UNCHANGED fm

CloseConnection(p) ==
    /\ cm.activeConnections[p] # 0
    /\ LET w == closeConnection(World(cm, handles), p)
       IN  cm' = w.cm /\ handles' = w.handles
    /\ UNCHANGED <<now, files, conn, cret, lastFailAt, disposedSince, nConn>>
    /\ UNCHANGED breakerVars
    /\ UNCHANGED readerVars
    /\ UNCHANGED backoff
    /\ UNCHANGED probe
    /\ UNCHANGED fm

DisposeManager ==
    /\ LET w == dispose(World(cm, handles))
       IN  cm' = w.cm /\ handles' = w.handles
    /\ disposedSince' = {p \in Paths : lastFailAt[p] # 0}
    /\ UNCHANGED <<now, files, conn, cret, lastFailAt, nConn>>
    /\ UNCHANGED breakerVars
    /\ UNCHANGED readerVars
    /\ UNCHANGED backoff
    /\ UNCHANGED probe
    /\ UNCHANGED fm

\* Time passes while the connection manager is used.
ConnTick ==
    /\ now < MaxConnTime
    /\ now' = now + 1
    /\ UNCHANGED connVars
    /\ UNCHANGED breakerVars
    /\ UNCHANGED readerVars
    /\ UNCHANGED backoff
    /\ UNCHANGED probe
    /\ UNCHANGED fm

\* The environment replaces, removes or rewrites the file at a path.
FileChanges(p, f) ==
    /\ files[p] # f
    /\ files' = [files EXCEPT ![p] = f]
    /\ UNCHANGED <<now, cm, handles, conn, cret, lastFailAt, disposedSince, nConn>>
    /\ UNCHANGED breakerVars
    /\ UNCHANGED readerVars
    /\ UNCHANGED backoff
    /\ UNCHANGED probe
    /\ UNCHANGED fm

\* A pooled handle stops answering queries.
HandleBreaks(h) ==
    /\ h \notin handles.broken
    /\ \E p \in Paths : cm.activeConnections[p] = h
    /\ handles' = [handles EXCEPT !.broken = @ \cup {h}]
    /\ UNCHANGED <<now, cm, files, conn, cret, lastFailAt, disposedSince, nConn>>
    /\ UNCHANGED breakerVars
    /\ UNCHANGED readerVars
    /\ UNCHANGED backoff
    /\ UNCHANGED probe
    /\ UNCHANGED fm

\* A pooled handle gets into a condition in which its close() throws.
HandleSticks(h) ==
    /\ h \notin handles.stuck
    /\ \E p \in Paths : cm.activeConnections[p] = h
    /\ handles' = [handles EXCEPT !.stuck = @ \cup {h}]
    /\ UNCHANGED <<now, cm, files, conn, cret, lastFailAt, disposedSince, nConn>>
    /\ UNCHANGED breakerVars
    /\ UNCHANGED readerVars
    /\ UNCHANGED backoff
    /\ UNCHANGED probe
    /\ UNCHANGED fm

----------------------------------------------------------------------------
(* PlatformPathResolver *)

SUPPORTED_PLATFORMS == {"darwin", "win32", "linux"}
CODE_FOLDERS == <<"Code", "Code - Insiders", "VSCodium">>

\* A machine: process.platform, whether process.env.APPDATA is set, whether
\* vscode.workspace.workspaceFolders is non-empty, and the installations whose
\* workspaceStorage directory exists and is readable.
Host(platform, appData, workspaceOpen, dirs) ==
    [platform |-> platform, appData |-> appData,
     workspaceOpen |-> workspaceOpen, dirs |-> dirs]

\* The machines a Reader is started on.
Hosts ==
    {Host("darwin", FALSE, TRUE, {CODE_FOLDERS[1]}),
     Host("linux", FALSE, TRUE, {CODE_FOLDERS[2]}),
     Host("linux", FALSE, FALSE, {CODE_FOLDERS[1]}),
     Host("win32", TRUE, TRUE, {CODE_FOLDERS[2]}),
     Host("win32", FALSE, TRUE, {CODE_FOLDERS[1]}),
     Host("freebsd", FALSE, TRUE, {CODE_FOLDERS[1]})}

\* getPlatformConfig(): the cached configuration, or one computed from the
\* platform; an unsupported platform and Windows without APPDATA throw.
getPlatformConfig(r, h) ==
    IF r.platformConfig # "null"
    THEN [threw |-> FALSE, platform |-> r.platformConfig, r |-> r]
    ELSE IF h.platform \notin SUPPORTED_PLATFORMS
    THEN [threw |-> TRUE, platform |-> "", r |-> r]
    ELSE IF h.platform = "win32" /\ ~h.appData
    THEN [threw |-> TRUE, platform |-> "", r |-> r]
    ELSE [threw |-> FALSE, platform |-> h.platform,
          r |-> [r EXCEPT !.platformConfig = h.platform]]

\* path.sep of the platform
separator(platform) == IF platform = "win32" THEN "\\" ELSE "/"

\* basePath.replace('/Code/', `/${codeFolder}/`): the folder the alternative
\* base path points into. A base path written with back-slashes has no
\* '/Code/' in it and is left as it is.
alternativeFolder(platform, codeFolder) ==
    IF separator(platform) = "/" THEN codeFolder ELSE CODE_FOLDERS[1]

\* validateStoragePath(storagePath).isValid
validateStoragePath(folder, h) == folder \in h.dirs

tryAlternativeCodePaths(platform, h) ==
    IF validateStoragePath(alternativeFolder(platform, CODE_FOLDERS[2]), h)
    THEN [isValid |-> TRUE,
          folder |-> alternativeFolder(platform, CODE_FOLDERS[2])]
    ELSE IF validateStoragePath(alternativeFolder(platform, CODE_FOLDERS[3]), h)
    THEN [isValid |-> TRUE,
          folder |-> alternativeFolder(platform, CODE_FOLDERS[3])]
    ELSE [isValid |-> FALSE, folder |-> ""]

\* A PathValidationResult, with the resolver's fields after the call.
StorageResult(validation, r) ==
    [isValid |-> validation.isValid, folder |-> validation.folder, r |-> r]

\* getVSCodeStoragePath() once getPlatformConfig() has returned or thrown.
validateStorage(config, h) ==
    IF config.threw
    THEN [isValid |-> FALSE, folder |-> "", r |-> config.r]
    ELSE IF validateStoragePath(CODE_FOLDERS[1], h)
    THEN [isValid |-> TRUE, folder |-> CODE_FOLDERS[1], r |-> config.r]
    ELSE StorageResult(tryAlternativeCodePaths(config.platform, h), config.r)

getVSCodeStoragePath(r, h) == validateStorage(getPlatformConfig(r, h), h)

\* getPlatformDetails() throws when getPlatformConfig() does.
getPlatformDetails(r, h) == getPlatformConfig(r, h)

resetCache(r) == [r EXCEPT !.platformConfig = "null"]

----------------------------------------------------------------------------
(* WorkspaceResolver *)

\* path.join(storagePath, workspaceId, 'state.vscdb') of the open workspace
DatabasePathIn(folder) ==
    CASE folder = CODE_FOLDERS[1] -> "P"
      [] folder = CODE_FOLDERS[2] -> "Q"
      [] OTHER -> "R"

NoWorkspaceInfo == [cached |-> FALSE, databasePath |-> "", isValid |-> FALSE]

validateDatabasePath(f) ==
    IF ~f.exists THEN FALSE
    ELSE IF ~f.isFile THEN FALSE
    ELSE IF ~f.readable THEN FALSE
    ELSE f.header = "SQLite format 3"

\* getWorkspaceInfo(workspacePath): a cached entry is returned as long as its
\* database file exists; otherwise the entry is computed and cached, unless
\* the storage path cannot be resolved.
cacheHit(r, e) ==
    /\ r.workspaceCache.cached
    /\ e.files[r.workspaceCache.databasePath].exists

dropStaleEntry(r, e) ==
    IF r.workspaceCache.cached /\ ~cacheHit(r, e)
    THEN [r EXCEPT !.workspaceCache = NoWorkspaceInfo]
    ELSE r

cacheWorkspaceInfo(r, databasePath, isValid) ==
    [r |-> [r EXCEPT !.workspaceCache =
               [cached |-> TRUE, databasePath |-> databasePath,
                isValid |-> isValid]],
     isValid |-> isValid, databasePath |-> databasePath]

resolveWorkspaceInfo(storage, e) ==
    IF ~storage.isValid
    THEN [r |-> storage.r, isValid |-> FALSE, databasePath |-> ""]
    ELSE cacheWorkspaceInfo(
             storage.r, DatabasePathIn(storage.folder),
             validateDatabasePath(e.files[DatabasePathIn(storage.folder)]))

getWorkspaceInfo(r, e) ==
    IF cacheHit(r, e)
    THEN [r |-> r, isValid |-> r.workspaceCache.isValid,
          databasePath |-> r.workspaceCache.databasePath]
    ELSE resolveWorkspaceInfo(
             getVSCodeStoragePath(dropStaleEntry(r, e), e.host), e)

getCurrentWorkspaceInfo(r, e) ==
    IF ~e.host.workspaceOpen
    THEN [r |-> r, isValid |-> FALSE, databasePath |-> ""]
    ELSE getWorkspaceInfo(r, e)

clearCache(r) == [r EXCEPT !.workspaceCache = NoWorkspaceInfo]

----------------------------------------------------------------------------
(* The pipeline of one Reader: the resolvers' and the query engine's fields
   `r`, and the connection manager with its handles `w` *)

Sys(r, w) == [r |-> r, w |-> w]

\* What an operation reads from outside the Reader.
Env(h, fs, st, t) == [host |-> h, files |-> fs, stored |-> st, now |-> t]

\* getConnection(databasePath) run from its call to its return: `b` is where
\* it stands at its first suspension.
finishConnection(b, p, e, outcome) ==
    IF b.kind = "validate"
    THEN getConnectionEnd(b.w, p, e.now, validateDatabaseFile(e.files[p]),
                          outcome)
    ELSE b

getConnection(w, p, e, outcome) ==
    finishConnection(getConnectionBegin(w, p, e.now), p, e, outcome)

\* The ConnectionResult for connection outcome c.
WorkspaceConnection(r, c) ==
    [x |-> Sys(r, c.w), success |-> c.kind \in {"pooled", "opened"},
     handle |-> c.handle]

connectToWorkspace(w, info, e, outcome) ==
    IF ~info.isValid
    THEN [x |-> Sys(info.r, w), success |-> FALSE, handle |-> 0]
    ELSE WorkspaceConnection(info.r,
                             getConnection(w, info.databasePath, e, outcome))

getCurrentWorkspaceConnection(x, e, outcome) ==
    connectToWorkspace(x.w, getCurrentWorkspaceInfo(x.r, e), e, outcome)

----------------------------------------------------------------------------
(* SessionQueryEngine *)

\* Raw messages and sessions as JSON.parse yields them.
UserMessage == [role |-> "user", textual |-> TRUE]
AssistantMessage == [role |-> "assistant", textual |-> TRUE]
SystemMessage == [role |-> "system", textual |-> TRUE]
BinaryMessage == [role |-> "user", textual |-> FALSE]

\* `id` is "" and `createdAt` and `lastModified` are 0 where the property
\* is absent.
Session1 == [id |-> "s1", createdAt |-> 1, lastModified |-> 3,
             messages |-> <<UserMessage, AssistantMessage>>]
Session2 == [id |-> "s2", createdAt |-> 2, lastModified |-> 2,
             messages |-> <<SystemMessage, UserMessage>>]
Session3 == [id |-> "", createdAt |-> 0, lastModified |-> 0,
             messages |-> <<>>]

\* A session without `id` and `sessionId` that has a valid message.
Session4 ==
    [id |-> "", createdAt |-> 3, lastModified |-> 3,
     messages |-> <<AssistantMessage>>]

\* The ItemTable row under 'interactive.sessions': absent ("norow"), or with
\* an empty value ("empty"), or a value that is not JSON ("text"), or JSON
\* that is not an array ("object"), or an array of sessions.
Stored(kind, sessions) == [kind |-> kind, sessions |-> sessions]
StoredValues ==
    {Stored("norow", <<>>), Stored("text", <<>>),
     Stored("array", <<Session1>>), Stored("array", <<Session2, Session3>>),
     Stored("array", <<Session1, Session4>>)}

\* queryInteractiveSessionsRaw(database): the statement prepared first is
\* reused for every later handle; get() throws on a closed or broken database.
queryInteractiveSessionsRaw(x, handle, e) ==
    LET statement == IF x.r.preparedStatement # 0
                     THEN x.r.preparedStatement ELSE handle
        runs == /\ \E y \in x.w.handles.live : y.id = statement
                /\ statement \notin x.w.handles.broken
        x1 == Sys([x.r EXCEPT !.preparedStatement = statement], x.w)
    IN  IF ~runs
        THEN [x |-> x1, success |-> FALSE, sessions |-> <<>>,
              error |-> "Database query failed"]
        ELSE IF e.stored.kind \in {"norow", "empty"}
        THEN [x |-> x1, success |-> TRUE, sessions |-> <<>>,
              error |-> "none"]
        ELSE IF e.stored.kind = "array"
        THEN [x |-> x1, success |-> TRUE, sessions |-> e.stored.sessions,
              error |-> "none"]
        ELSE IF e.stored.kind = "object"
        THEN [x |-> x1, success |-> FALSE, sessions |-> <<>>,
              error |-> "not in expected array format"]
        ELSE [x |-> x1, success |-> FALSE, sessions |-> <<>>,
              error |-> "Failed to parse session JSON data"]

\* getInteractiveSessions(options) without pagination
queryConnection(c, e) ==
    IF ~c.success
    THEN [x |-> c.x, success |-> FALSE, sessions |-> <<>>,
          error |-> "Failed to establish database connection"]
    ELSE queryInteractiveSessionsRaw(c.x, c.handle, e)

getInteractiveSessions(x, e, outcome) ==
    queryConnection(getCurrentWorkspaceConnection(x, e, outcome), e)

\* sessions.find((s) => s.id === sessionId)
findSession(all, sessionId) ==
    LET found == SelectSeq(all.sessions, LAMBDA s : s.id = sessionId)
    IN  IF ~all.success
        THEN all
        ELSE IF found = <<>>
        THEN [x |-> all.x, success |-> FALSE, sessions |-> <<>>]
        ELSE [x |-> all.x, success |-> TRUE, sessions |-> <<Head(found)>>]

\* SessionQueryEngine.getSessionById(sessionId)
getSessionById(x, e, outcome, sessionId) ==
    findSession(getInteractiveSessions(x, e, outcome), sessionId)

\* sessions.filter(...): the sessions created at or after sinceDate
filterSessions(all, sinceDate) ==
    IF ~all.success
    THEN all
    ELSE [x |-> all.x, success |-> TRUE,
          sessions |-> SelectSeq(all.sessions,
                          LAMBDA s : s.createdAt # 0
                                     /\ s.createdAt >= sinceDate)]

\* SessionQueryEngine.getSessionsSince(sinceDate)
getSessionsSince(x, e, outcome, sinceDate) ==
    filterSessions(getInteractiveSessions(x, e, outcome), sinceDate)

\* getSessionMetadata().success
getSessionMetadata(x, e, outcome) == getInteractiveSessions(x, e, outcome)

disposeQueryEngine(r) == [r EXCEPT !.preparedStatement = 0]

----------------------------------------------------------------------------
(* SessionDataParser as the Reader configures it: strictMode from
   strictParsing, allowEmptySessions and requireSessionId false *)

parseIndividualMessage(m) == m.role \in {"user", "assistant"} /\ m.textual

parseMessages_SkipsWhenStrict(strictMode, messagesData) ==
    [success |-> TRUE,
     data |-> SelectSeq(messagesData, parseIndividualMessage)]

\* parseMessages(messagesData): the first invalid message fails the whole
\* array in strict mode and is skipped otherwise; a parsed message carries
\* the role and the content of the raw one.
parseMessages(strictMode, messagesData) ==
    LET parsed == SelectSeq(messagesData, parseIndividualMessage)
    IN  IF strictMode /\ Len(parsed) < Len(messagesData)
        THEN [success |-> FALSE, data |-> <<>>]
        ELSE [success |-> TRUE, data |-> parsed]

extractSessionId(sessionData) ==
    IF sessionData.id # "" THEN sessionData.id ELSE "generated"

parseIndividualSession(strictMode, sessionData) ==
    LET messagesResult == parseMessages(strictMode, sessionData.messages)
    IN  IF ~messagesResult.success
        THEN [success |-> FALSE, id |-> "", messages |-> <<>>]
        ELSE IF Len(messagesResult.data) = 0
        THEN [success |-> FALSE, id |-> "", messages |-> <<>>]
        ELSE [success |-> TRUE, id |-> extractSessionId(sessionData),
              messages |-> messagesResult.data]

RECURSIVE parseEach(_, _)
parseEach(strictMode, sessionsArray) ==
    IF sessionsArray = <<>> THEN <<>>
    ELSE LET sessionResult ==
                 parseIndividualSession(strictMode, Head(sessionsArray))
         IN  (IF sessionResult.success THEN <<sessionResult.id>> ELSE <<>>)
             \o parseEach(strictMode, Tail(sessionsArray))

parseSessionData_SucceedsOnNone(strictMode, rawData) ==
    [success |-> TRUE, data |-> parseEach(strictMode, rawData),
     error |-> "none"]

\* parseSessionData(rawData) for an array: it succeeds when at least one
\* session was parsed.
parseSessionData(strictMode, rawData) ==
    LET parsedSessions == parseEach(strictMode, rawData)
    IN  [success |-> Len(parsedSessions) > 0, data |-> parsedSessions,
         error |-> IF Len(parsedSessions) > 0 THEN "none"
                   ELSE "No valid sessions could be parsed"]

----------------------------------------------------------------------------
(* SessionDataParser with any validation options *)

\* What `messages` of a raw session holds when it is not an array; the
\* first four are falsy.
Falsy == {"null", "0", "false", "''"}
NonArrays == Falsy \cup {"1", "true", "'text'", "{}"}

\* An entry of the array handed to parseSessionData: `messages` is "array"
\* where the entry's messages are the array session.messages, and else the
\* value found in their place.
Entry(session, messages) == [session |-> session, messages |-> messages]

ValidationOptions(strictMode, allowEmptySessions, requireSessionId) ==
    [strictMode |-> strictMode, allowEmptySessions |-> allowEmptySessions,
     requireSessionId |-> requireSessionId]

SessionResult(success, id, messages, error, skipped) ==
    [success |-> success, id |-> id, messages |-> messages, error |-> error,
     skipped |-> skipped, warnings |-> <<>>]

\* The warnings of a successful parseMessages(messagesData): one for each
\* message that was skipped, with its index.
skippedWarnings(messagesData) ==
    LET invalid == SelectSeq([k \in DOMAIN messagesData |-> k],
                       LAMBDA k : ~parseIndividualMessage(messagesData[k]))
    IN  [j \in DOMAIN invalid |->
            [text |-> "Skipped invalid message", index |-> invalid[j] - 1]]

\* parseIndividualSession(): the messages parsed and the empty session
\* refused; the result is built with the function's own, empty, warnings.
parseSessionMessages(options, id, messagesData) ==
    IF ~parseMessages(options.strictMode, messagesData).success
    THEN SessionResult(FALSE, "", <<>>, "Invalid message", <<>>)
    ELSE IF /\ ~options.allowEmptySessions
            /\ Len(parseMessages(options.strictMode, messagesData).data) = 0
    THEN SessionResult(FALSE, "", <<>>, "Empty sessions are not allowed",
                       skippedWarnings(messagesData))
    ELSE SessionResult(TRUE, id,
                       parseMessages(options.strictMode, messagesData).data,
                       "none", skippedWarnings(messagesData))

\* parseIndividualSession(sessionData, index) under any options: the id is
\* required or generated, then parseMessages(sessionData.messages || []),
\* which refuses what is not an array.
parseEntry(options, entry) ==
    IF options.requireSessionId /\ entry.session.id = ""
    THEN SessionResult(FALSE, "", <<>>,
                       "Session ID is required but not found", <<>>)
    ELSE IF entry.messages \notin Falsy \cup {"array"}
    THEN SessionResult(FALSE, "", <<>>, "Messages data is not an array",
                       <<>>)
    ELSE parseSessionMessages(options, extractSessionId(entry.session),
                              IF entry.messages = "array"
                              THEN entry.session.messages ELSE <<>>)

\* parseSessionData(rawData): the loop over the entries; a refused entry
\* adds its warnings and its error to the warnings, an accepted one its
\* session to the data.
RECURSIVE parseEntries(_, _, _, _)
parseEntries(options, entries, i, acc) ==
    IF i > Len(entries) THEN acc
    ELSE IF parseEntry(options, entries[i]).success
    THEN parseEntries(options, entries, i + 1,
             [acc EXCEPT !.data =
                      Append(@, parseEntry(options, entries[i]).id)])
    ELSE parseEntries(options, entries, i + 1,
             [acc EXCEPT !.warnings =
                      @ \o parseEntry(options, entries[i]).warnings
                        \o <<[text |-> "Session", index |-> i - 1]>>])

parseWith(options, entries) ==
    LET parsed == parseEntries(options, entries, 1,
                               [data |-> <<>>, warnings |-> <<>>])
    IN  [success |-> Len(parsed.data) > 0, data |-> parsed.data,
         error |-> IF Len(parsed.data) > 0 THEN "none"
                   ELSE "No valid sessions could be parsed",
         warnings |-> parsed.warnings]

----------------------------------------------------------------------------
(* DatabaseReader *)

ReaderOp(name, sessionId, sinceDate) ==
    [name |-> name, sessionId |-> sessionId, sinceDate |-> sinceDate]
NoOp == ReaderOp("none", "", 0)
SessionOps ==
    {ReaderOp("getSessions", "", 0), ReaderOp("getSessionById", "s1", 0),
     ReaderOp("getSessionsSince", "", 2)}

\* A Reader after its constructor.
InitReaderObject(enableCircuitBreaker, strictParsing) ==
    [enableCircuitBreaker |-> enableCircuitBreaker,
     strictParsing |-> strictParsing,
     platformConfig |-> "null",
     workspaceCache |-> NoWorkspaceInfo,
     preparedStatement |-> 0]

\* The three internal operations: query, then parse. Every exception is
\* caught and turned into a result with success = false; `stage` names the
\* step that failed.
Internal(x, success, stage, sessions) ==
    [x |-> x, success |-> success, stage |-> stage, sessions |-> sessions]

\* Step 2 of an internal operation: parse what the query returned.
parseQueried(queryResult, strictParsing) ==
    LET parseResult == parseSessionData(strictParsing, queryResult.sessions)
    IN  IF ~queryResult.success
        THEN Internal(queryResult.x, FALSE, "query", <<>>)
        ELSE IF ~parseResult.success
        THEN Internal(queryResult.x, FALSE, "parse", <<>>)
        ELSE Internal(queryResult.x, TRUE, "done", parseResult.data)

parseQueriedSession(queryResult, strictParsing) ==
    LET parseResult == parseSessionData(strictParsing, queryResult.sessions)
    IN  IF ~queryResult.success
        THEN Internal(queryResult.x, FALSE, "query", <<>>)
        ELSE IF ~parseResult.success \/ Len(parseResult.data) = 0
        THEN Internal(queryResult.x, FALSE, "parse", <<>>)
        ELSE Internal(queryResult.x, TRUE, "done", parseResult.data)

getSessionsInternal(x, e, outcome) ==
    parseQueried(getInteractiveSessions(x, e, outcome), x.r.strictParsing)

getSessionByIdInternal(x, e, outcome, sessionId) ==
    parseQueriedSession(getSessionById(x, e, outcome, sessionId),
                        x.r.strictParsing)

getSessionsSinceInternal(x, e, outcome, sinceDate) ==
    parseQueried(getSessionsSince(x, e, outcome, sinceDate),
                 x.r.strictParsing)

operation(op, x, e, outcome) ==
    CASE op.name = "getSessionById" ->
             getSessionByIdInternal(x, e, outcome, op.sessionId)
      [] op.name = "getSessionsSince" ->
             getSessionsSinceInternal(x, e, outcome, op.sinceDate)
      [] OTHER -> getSessionsInternal(x, e, outcome)

\* What a public operation of the Reader gave back: `raised` when it threw
\* instead of returning; `internal` and `stage` are the result of the internal
\* operation the call ran, `invoked` how many times it ran it.
ReaderResult(op, via, rejected, success, hasError, sessions, int, stage, n) ==
    [op |-> op, raised |-> FALSE, viaBreaker |-> via,
     rejected |-> rejected, success |-> success, hasError |-> hasError,
     sessions |-> sessions, internal |-> int, stage |-> stage,
     invoked |-> n, exercised |-> <<>>, passed |-> {}, errors |-> <<>>]
NoReaderResult ==
    ReaderResult("none", FALSE, FALSE, FALSE, FALSE, <<>>, FALSE, "none", 0)
Raised(op) == [NoReaderResult EXCEPT !.op = op, !.raised = TRUE]

\* The consecutive session calls whose query step failed.
QueryFailRun(i) == IF i.stage = "query" THEN queryFailRun + 1 ELSE 0

\* The Reader's components after internal result i.
ComponentsAfter(i) ==
    /\ reader' = i.x.r
    /\ cm' = i.x.w.cm
    /\ handles' = i.x.w.handles
    /\ queryFailRun' = QueryFailRun(i)

\* Without the breaker the internal result is what the caller gets.
ReturnInternal(op, i) ==
    /\ ComponentsAfter(i)
    /\ rret' = ReaderResult(op.name, FALSE, FALSE, i.success, ~i.success,
                            i.sessions, i.success, i.stage, 1)

\* With the breaker the Reader builds its result from the
\* CircuitBreakerResult: success and error are the breaker's, the sessions are
\* those of the internal result.
ReturnCircuitResult(c, i) ==
    /\ ComponentsAfter(i)
    /\ cb' = onSuccess(cb, now)
    /\ rret' = ReaderResult(pending[c].name, TRUE, FALSE, TRUE, FALSE,
                            i.sessions, i.success, i.stage,
                            calls[c].attempt + 1)

\* getSessions / getSessionById / getSessionsSince is called. With the breaker
\* the call goes through execute(); without it the internal operation is run
\* and its result returned.
ReaderCall(c, op, outcome) ==
    /\ calls[c].pc = "idle"
    /\ nReader < MaxReaderCalls
    /\ nReader' = nReader + 1
    /\ IF reader.enableCircuitBreaker
       THEN LET b1 == [cb EXCEPT !.totalCalls = @ + 1]
            IN  IF b1.state = OPEN /\ ~shouldAttemptReset(b1, now)
                THEN /\ cb' = b1
                     /\ rret' = ReaderResult(op.name, TRUE, TRUE, FALSE, TRUE,
                                             <<>>, FALSE, "none", 0)
                     /\ UNCHANGED <<calls, pending, reader, cm, handles,
                                    queryFailRun>>
                ELSE /\ cb' = IF b1.state = OPEN
                              THEN setState(b1, HALF_OPEN) ELSE b1
                     /\ calls' = [calls EXCEPT ![c] = [pc |-> "run",
                                                       attempt |-> 0]]
                     /\ pending' = [pending EXCEPT ![c] = op]
                     /\ UNCHANGED <<rret, reader, cm, handles, queryFailRun>>
       ELSE /\ ReturnInternal(op, operation(op, Sys(reader, World(cm, handles)),
                                            Env(host, files, stored, now),
                                            outcome))
            /\ UNCHANGED <<cb, calls, pending>>
    /\ UNCHANGED <<now, ret, failedRun, files, conn, cret, lastFailAt,
                   disposedSince, nConn, host, stored>>
    /\ UNCHANGED backoff
    /\ UNCHANGED probe
    /\ UNCHANGED fm

\* executeWithRetries: the awaited internal operation resolves (it never
\* rejects), so the breaker counts a success.
ReaderOperationResolves(c, outcome) ==
    /\ calls[c].pc = "run"
    /\ pending[c] # NoOp
    /\ ReturnCircuitResult(c, operation(pending[c],
                                        Sys(reader, World(cm, handles)),
                                        Env(host, files, stored, now),
                                        outcome))
    /\ calls' = [calls EXCEPT ![c] = Idle]
    /\ pending' = [pending EXCEPT ![c] = NoOp]
    /\ failedRun' = 0
    /\ UNCHANGED <<now, ret, files, conn, cret, lastFailAt, disposedSince,
                   nConn, host, stored, nReader>>
    /\ UNCHANGED backoff
    /\ UNCHANGED probe
    /\ UNCHANGED fm

\* getSystemHealth(): it has no try/catch around getPlatformDetails().
GetSystemHealth ==
    /\ LET d == getPlatformDetails(reader, host)
       IN  /\ reader' = d.r
           /\ rret' = IF d.threw THEN Raised("getSystemHealth")
                      ELSE ReaderResult("getSystemHealth", FALSE, FALSE, TRUE,
                                        FALSE, <<>>, FALSE, "none", 0)
    /\ UNCHANGED <<now, cb, calls, ret, failedRun, pending, queryFailRun,
                   nReader, host, stored>>
    /\ UNCHANGED connVars
    /\ UNCHANGED backoff
    /\ UNCHANGED probe
    /\ UNCHANGED fm

\* testConnection(): `overall` is returned as the success of the result.
\* The layers of testConnection in the order of its code, and the flags of
\* its result.
TEST_LAYERS ==
    <<"platformResolution", "workspaceResolution", "databaseConnection",
      "sessionQuery", "dataParsing">>

TestFlags(platformOk, workspaceOk, connectionOk, sessionQuery, dataParsing) ==
    [l \in {TEST_LAYERS[i] : i \in 1..5} |->
        CASE l = TEST_LAYERS[1] -> platformOk
          [] l = TEST_LAYERS[2] -> workspaceOk
          [] l = TEST_LAYERS[3] -> connectionOk
          [] l = TEST_LAYERS[4] -> sessionQuery
          [] OTHER -> dataParsing]

\* The layers testConnection calls: the first three always, the session query
\* if the connection works, the parsing if the query works.
TestExercised(connectionOk, sessionQuery) ==
    SubSeq(TEST_LAYERS, 1, 3)
    \o (IF connectionOk THEN <<TEST_LAYERS[4]>> ELSE <<>>)
    \o (IF connectionOk /\ sessionQuery THEN <<TEST_LAYERS[5]>> ELSE <<>>)

\* The result object of testConnection: a flag per layer, `overall`, and one
\* entry of `errors` per layer that was called and failed.
TestResult(flags, exercised) ==
    [ReaderResult("testConnection", FALSE, FALSE,
                  \A l \in DOMAIN flags : flags[l],
                  \E l \in DOMAIN flags : ~flags[l],
                  <<>>, FALSE, "none", 0)
     EXCEPT !.exercised = exercised,
            !.passed = {l \in DOMAIN flags : flags[l]},
            !.errors = SelectSeq(exercised, LAMBDA l : ~flags[l])]

TestReturns(platformOk, workspaceOk, connectionOk, queryResult) ==
    LET sessionQuery == connectionOk /\ queryResult.success
        dataParsing == sessionQuery
                       /\ parseSessionData(reader.strictParsing, <<>>).success
    IN  /\ reader' = queryResult.x.r
        /\ cm' = queryResult.x.w.cm
        /\ handles' = queryResult.x.w.handles
        /\ rret' = TestResult(TestFlags(platformOk, workspaceOk, connectionOk,
                                        sessionQuery, dataParsing),
                              TestExercised(connectionOk, sessionQuery))

\* testConnection(): the session query, only if the connection works.
TestQuery(platformOk, workspaceOk, connectionResult, e, outcome) ==
    IF connectionResult.success
    THEN TestReturns(platformOk, workspaceOk, TRUE,
                     getSessionMetadata(connectionResult.x, e, outcome))
    ELSE TestReturns(platformOk, workspaceOk, FALSE,
                     [x |-> connectionResult.x, success |-> FALSE,
                      sessions |-> <<>>])

\* testConnection(): the database connection.
TestDatabase(platformOk, workspaceResult, e, outcome) ==
    TestQuery(platformOk, workspaceResult.isValid,
              getCurrentWorkspaceConnection(
                  Sys(workspaceResult.r, World(cm, handles)), e, outcome),
              e, outcome)

\* testConnection(): the workspace resolution.
TestWorkspace(platformResult, e, outcome) ==
    TestDatabase(platformResult.isValid,
                 getCurrentWorkspaceInfo(platformResult.r, e), e, outcome)

\* testConnection(): the five stages in turn, the first being the platform
\* resolution.
TestConnection(outcome) ==
    /\ nReader < MaxReaderCalls
    /\ nReader' = nReader + 1
    /\ TestWorkspace(getVSCodeStoragePath(reader, host),
                     Env(host, files, stored, now), outcome)
    /\ UNCHANGED <<now, cb, calls, ret, failedRun, pending, queryFailRun,
                   host, stored>>
    /\ UNCHANGED <<files, conn, cret, lastFailAt, disposedSince, nConn>>
    /\ UNCHANGED backoff
    /\ UNCHANGED probe
    /\ UNCHANGED fm

\* DatabaseReader.dispose(): closeAllConnections() of the manager, then the
\* teardown of the query engine, the workspace cache and the platform cache.
disposeReader(s) ==
    Sys(resetCache(clearCache(disposeQueryEngine(s.r))),
        closeAllConnections(s.w))

ReaderDispose ==
    /\ cm' = disposeReader(Sys(reader, World(cm, handles))).w.cm
    /\ handles' = disposeReader(Sys(reader, World(cm, handles))).w.handles
    /\ reader' = disposeReader(Sys(reader, World(cm, handles))).r
    /\ UNCHANGED <<now, cb, calls, ret, failedRun, pending, queryFailRun,
                   nReader, rret, host, stored>>
    /\ UNCHANGED <<files, conn, cret, lastFailAt, disposedSince, nConn>>
    /\ UNCHANGED backoff
    /\ UNCHANGED probe
    /\ UNCHANGED fm

\* The stored sessions change.
StoredChanges(v) ==
    /\ stored # v
    /\ stored' = v
    /\ UNCHANGED <<host, reader, pending, rret, queryFailRun, nReader>>
    /\ UNCHANGED <<now, cb, calls, ret, failedRun>>
    /\ UNCHANGED connVars
    /\ UNCHANGED backoff
    /\ UNCHANGED probe
    /\ UNCHANGED fm

\* Time passes while the Reader is used.
ReaderTick ==
    /\ now < MaxReaderTime
    /\ now' = now + 1
    /\ UNCHANGED breakerVars
    /\ UNCHANGED connVars
    /\ UNCHANGED readerVars
    /\ UNCHANGED backoff
    /\ UNCHANGED probe
    /\ UNCHANGED fm

----------------------------------------------------------------------------
(* The retry backoff of the breaker: calculateRetryDelay, in milliseconds *)

\* DEFAULT_CONFIG.retryDelay and the cap of calculateRetryDelay.
DEFAULT_RETRY_DELAY == 1000
MAX_RETRY_DELAY == 30000

\* The retryDelay values a caller configures, the attempt numbers, and
\* Math.random() in hundredths (it is below 1).
RetryDelays == {100, 1000, 20000, 30000, 40000}
MaxAttempt == 6
Randoms == {0, 1, 25, 50, 75, 99}

RECURSIVE Pow2(_)
Pow2(n) == IF n = 0 THEN 1 ELSE 2 * Pow2(n - 1)

MinOf(a, b) == IF a <= b THEN a ELSE b

\* calculateRetryDelay(attempt), with the value random Math.random() gave
\* (in hundredths): the jitter is random * 0.1 * exponentialDelay.
calculateRetryDelay(retryDelay, attempt, random) ==
    LET exponentialDelay == retryDelay * Pow2(attempt)
        jitter == (random * exponentialDelay) \div 1000
    IN  MinOf(exponentialDelay + jitter, MAX_RETRY_DELAY)

\* No delay calculated yet under the configured retryDelay d.
NoBackoff(d) ==
    [retryDelay |-> d, computed |-> FALSE, attempt |-> 0, random |-> 0,
     delay |-> 0]

\* The constructor or updateConfig sets retryDelay.
UpdateConfig(d) ==
    /\ backoff' = NoBackoff(d)
    /\ UNCHANGED now
    /\ UNCHANGED breakerVars
    /\ UNCHANGED connVars
    /\ UNCHANGED readerVars
    /\ UNCHANGED probe
    /\ UNCHANGED fm

\* The catch block of executeWithRetries calculates the delay before retry
\* number a + 1.
CalculateRetryDelay(a, r) ==
    /\ backoff' = [backoff EXCEPT !.computed = TRUE, !.attempt = a,
                                  !.random = r,
                                  !.delay = calculateRetryDelay(
                                                backoff.retryDelay, a, r)]
    /\ UNCHANGED now
    /\ UNCHANGED breakerVars
    /\ UNCHANGED connVars
    /\ UNCHANGED readerVars
    /\ UNCHANGED probe
    /\ UNCHANGED fm

----------------------------------------------------------------------------
(* The query engine called on its own: getInteractiveSessions(options) *)

NoProbe == [fn |-> "none", input |-> <<>>, output |-> <<>>]

\* The lists of sessions a row holds, and the rows.
MaxListLen == 2
RECURSIVE SessionLists(_)
SessionLists(n) ==
    IF n = 0 THEN {<<>>}
    ELSE SessionLists(n - 1)
         \cup {Append(l, s) : l \in {m \in SessionLists(n - 1) : Len(m) = n - 1},
                              s \in {Session1, Session2, Session3}}

QueryRows ==
    {Stored("norow", <<>>), Stored("empty", <<>>), Stored("text", <<>>),
     Stored("object", <<>>)}
    \cup {Stored("array", l) : l \in SessionLists(MaxListLen)}

\* The offsets and limits of the options; 0 also stands for an option that
\* is absent, which the code does not tell from 0.
MaxPage == 3

\* Array.prototype.slice(a, b) for 0 <= a <= b
slice(data, a, b) == SubSeq(data, a + 1, MinOf(b, Len(data)))

\* The pagination of getInteractiveSessions: applied if offset or limit is
\* truthy, with `options.limit || processedData.length` as the limit.
applyPagination(data, offset, limit) ==
    IF offset # 0 \/ limit # 0
    THEN slice(data, offset,
               offset + (IF limit # 0 THEN limit ELSE Len(data)))
    ELSE data

\* What getInteractiveSessions({offset, limit}) returns, `raw` being the
\* result of the connection and of queryInteractiveSessionsRaw.
pageOf(raw, row, offset, limit) ==
    IF ~raw.success
    THEN [success |-> FALSE, sessions |-> <<>>, total |-> 0,
          error |-> raw.error]
    ELSE [success |-> TRUE,
          sessions |-> applyPagination(raw.sessions, offset, limit),
          total |-> Len(raw.sessions), error |-> "none"]

QueryReturns(raw, row, offset, limit) ==
    /\ reader' = raw.x.r
    /\ cm' = raw.x.w.cm
    /\ handles' = raw.x.w.handles
    /\ probe' = [fn |-> "getInteractiveSessions",
                 input |-> [row |-> row, offset |-> offset, limit |-> limit],
                 output |-> pageOf(raw, row, offset, limit)]

\* getInteractiveSessions({offset, limit}) called on the query engine.
QuerySessions(offset, limit, outcome) ==
    /\ QueryReturns(getInteractiveSessions(Sys(reader, World(cm, handles)),
                                           Env(host, files, stored, now),
                                           outcome),
                    stored, offset, limit)
    /\ UNCHANGED <<now, cb, calls, ret, failedRun, pending, queryFailRun,
                   nReader, rret, host, stored>>
    /\ UNCHANGED <<files, conn, cret, lastFailAt, disposedSince, nConn>>
    /\ UNCHANGED backoff
    /\ UNCHANGED fm

----------------------------------------------------------------------------

(* FileManager *)

\* this.options.maxRetries
FILE_MAX_RETRIES == 3

\* The writeSession calls, the contents they write, and the milliseconds of
\* new Date().toISOString() that generateFileName puts into the file name.
MaxWriters == 2
Writers == 1..MaxWriters
Contents == {"x", "y"}
MaxStamp == 2

\* `${timestamp}_chat.md` for counter 0, `${timestamp}_chat_${counter}.md`
\* for the others; the temporary file of a path is `${filePath}.tmp`.
FilePath(stamp, counter) == [stamp |-> stamp, counter |-> counter]
FilePaths == {FilePath(s, k) : s \in 1..MaxStamp, k \in 0..MaxWriters}
NoFile == "none"

WriteIdle ==
    [pc |-> "idle", content |-> NoFile, filePath |-> FilePath(1, 0),
     attempt |-> 0, success |-> FALSE]

\* A directory is the set of its files; what is at a path of it, and the
\* directory with a file written or removed.
contentAt(directory, filePath) ==
    IF \E f \in directory : f.filePath = filePath
    THEN (CHOOSE f \in directory : f.filePath = filePath).content
    ELSE NoFile

without(directory, filePath) == {f \in directory : f.filePath # filePath}

with(directory, filePath, content) ==
    IF content = NoFile THEN without(directory, filePath)
    ELSE without(directory, filePath)
         \cup {[filePath |-> filePath, content |-> content]}

InitFileManager ==
    [files |-> {},
     temps |-> {},
     ms |-> 1,
     writes |-> [w \in Writers |-> WriteIdle]]

FileManagerStep(next) ==
    /\ fm' = next
    /\ UNCHANGED <<now, cb, calls, ret, failedRun, pending, queryFailRun,
                   nReader, rret, host, stored, reader>>
    /\ UNCHANGED <<files, conn, cret, lastFailAt, disposedSince, nConn, cm,
                   handles>>
    /\ UNCHANGED <<backoff, probe>>

\* writeSession(sessionId, content) is called and awaits mkdir.
WriteSession(w, content) ==
    /\ fm.writes[w].pc = "idle"
    /\ FileManagerStep([fm EXCEPT !.writes[w].pc = "mkdir",
                                  !.writes[w].content = content])

\* generateFileName(), and the base path getFilePath starts from.
GenerateFileName(w) ==
    /\ fm.writes[w].pc = "mkdir"
    /\ FileManagerStep([fm EXCEPT !.writes[w].pc = "fileExists",
                                  !.writes[w].filePath = FilePath(fm.ms, 0)])

\* getFilePath(): one turn of `while (await this.fileExists(filePath))`.
FileExists(w) ==
    /\ fm.writes[w].pc = "fileExists"
    /\ IF contentAt(fm.files, fm.writes[w].filePath) # NoFile
       THEN FileManagerStep(
                [fm EXCEPT !.writes[w].filePath.counter = @ + 1])
       ELSE FileManagerStep([fm EXCEPT !.writes[w].pc = "writeFile"])

\* writeFileAtomic(): fs.promises.writeFile(tempPath, content)
WriteTemp(w) ==
    /\ fm.writes[w].pc = "writeFile"
    /\ FileManagerStep(
           [fm EXCEPT !.temps = with(@, fm.writes[w].filePath,
                                            fm.writes[w].content),
                      !.writes[w].pc = "readFile"])

\* writeFileAtomic(): the temporary file is read back and compared; a missing
\* file and a different content both throw.
ReadTemp(w) ==
    /\ fm.writes[w].pc = "readFile"
    /\ IF contentAt(fm.temps, fm.writes[w].filePath) = fm.writes[w].content
       THEN FileManagerStep([fm EXCEPT !.writes[w].pc = "rename"])
       ELSE FileManagerStep([fm EXCEPT !.writes[w].pc = "unlink",
                                       !.writes[w].attempt = @ + 1])

\* fs.promises.rename(tempPath, filePath): the temporary file takes the place
\* of whatever is at filePath.
rename(f, filePath) ==
    [f EXCEPT !.files = with(@, filePath, contentAt(f.temps, filePath)),
              !.temps = without(@, filePath)]

\* writeFileAtomic(): the rename; it throws if the temporary file is gone.
RenameTemp(w) ==
    /\ fm.writes[w].pc = "rename"
    /\ IF contentAt(fm.temps, fm.writes[w].filePath) # NoFile
       THEN FileManagerStep(
                [rename(fm, fm.writes[w].filePath)
                     EXCEPT !.writes[w].pc = "stat"])
       ELSE FileManagerStep([fm EXCEPT !.writes[w].pc = "unlink",
                                       !.writes[w].attempt = @ + 1])

\* writeFileAtomic(): the catch block removes the temporary file, then gives
\* up after maxRetries attempts or waits and tries again.
UnlinkTemp(w) ==
    /\ fm.writes[w].pc = "unlink"
    /\ IF fm.writes[w].attempt >= FILE_MAX_RETRIES
       THEN FileManagerStep(
                [fm EXCEPT !.temps = without(@, fm.writes[w].filePath),
                           !.writes[w].pc = "returned",
                           !.writes[w].success = FALSE])
       ELSE FileManagerStep(
                [fm EXCEPT !.temps = without(@, fm.writes[w].filePath),
                           !.writes[w].pc = "writeFile"])

\* writeSession(): fs.promises.stat(filePath) and the result.
StatFile(w) ==
    /\ fm.writes[w].pc = "stat"
    /\ FileManagerStep(
           [fm EXCEPT !.writes[w].pc = "returned",
                      !.writes[w].success =
                          contentAt(fm.files, fm.writes[w].filePath)
                              # NoFile])

\* A millisecond passes.
MsPasses ==
    /\ fm.ms < MaxStamp
    /\ FileManagerStep([fm EXCEPT !.ms = @ + 1])

vars == <<now, cb, calls, ret, failedRun, cm, handles, files, conn, cret,
          lastFailAt, disposedSince, nConn, host, stored, reader, pending,
          rret, queryFailRun, nReader, backoff, probe, fm>>

\* The state after construction, on machine h with Reader object r.
InitOn(h, r) ==
    /\ now = 1
    /\ cb = InitBreaker
    /\ calls = [c \in CallIds |-> Idle]
    /\ ret = NoResult
    /\ failedRun = 0
    /\ cm = InitManager
    /\ handles = InitHandles
    /\ files = [p \in Paths |-> ValidFile]
    /\ conn = [k \in ConnIds |-> ConnIdle]
    /\ cret = NoConnResult
    /\ lastFailAt = [p \in Paths |-> 0]
    /\ disposedSince = {}
    /\ nConn = 0
    /\ host = h
    /\ stored = Stored("array", <<Session1>>)
    /\ reader = r
    /\ pending = [c \in CallIds |-> NoOp]
    /\ rret = NoReaderResult
    /\ queryFailRun = 0
    /\ nReader = 0
    /\ backoff = NoBackoff(DEFAULT_RETRY_DELAY)
    /\ probe = NoProbe
    /\ fm = InitFileManager

\* A macOS machine with a workspace open in the stable installation, and a
\* Reader with its default configuration.
Init ==
    InitOn(Host("darwin", FALSE, TRUE, {CODE_FOLDERS[1]}),
           InitReaderObject(TRUE, TRUE))

\* Any of the machines, and a Reader with or without its circuit breaker
\* (strictParsing keeps its default).
InitReader ==
    \E h \in Hosts, enableCircuitBreaker \in BOOLEAN :
        InitOn(h, InitReaderObject(enableCircuitBreaker, TRUE))

\* The breaker driven by operation outcomes alone.
NextOutcomes ==
    \/ \E c \in CallIds : Execute(c)
    \/ \E c \in CallIds : AttemptSucceeds(c)
    \/ \E c \in CallIds : AttemptFails(c)
    \/ \E c \in CallIds : RetryAfterSleep(c)
    \/ Tick

SpecOutcomes == Init /\ [][NextOutcomes]_vars

\* The same, where every attempt of the operation settles and every backoff
\* sleep ends.
SpecOutcomesFair ==
    /\ SpecOutcomes
    /\ \A c \in CallIds :
           /\ WF_vars(AttemptSucceeds(c) \/ AttemptFails(c))
           /\ WF_vars(RetryAfterSleep(c))

\* The operations fail until the breaker has counted failureThreshold failed
\* calls, and succeed from then on.
OperationsStillFail == cb.totalFailures < failureThreshold

\* The breaker over a dependency that recovers.
NextRecovery ==
    \/ \E c \in CallIds : Execute(c)
    \/ \E c \in CallIds : AttemptSucceeds(c)
    \/ \E c \in CallIds : OperationsStillFail /\ AttemptFails(c)
    \/ \E c \in CallIds : RetryAfterSleep(c)
    \/ Tick

\* The same, where time advances, callers keep invoking execute, and every
\* attempt and every backoff sleep ends.
SpecRecovery ==
    /\ Init
    /\ [][NextRecovery]_vars
    /\ WF_vars(Tick)
    /\ \A c \in CallIds :
           /\ WF_vars(Execute(c))
           /\ WF_vars(AttemptSucceeds(c))
           /\ WF_vars(RetryAfterSleep(c))

\* The breaker with its manual controls.
NextBreaker ==
    \/ \E c \in CallIds : Execute(c)
    \/ \E c \in CallIds : AttemptSucceeds(c)
    \/ \E c \in CallIds : AttemptFails(c)
    \/ \E c \in CallIds : RetryAfterSleep(c)
    \/ ManualReset
    \/ ManualOpen
    \/ Tick

SpecBreaker == Init /\ [][NextBreaker]_vars

\* The retry delays under every configured retryDelay.
NextBackoff ==
    \/ \E d \in RetryDelays : UpdateConfig(d)
    \/ \E a \in 0..MaxAttempt, r \in Randoms : CalculateRetryDelay(a, r)

SpecBackoff == Init /\ [][NextBackoff]_vars

\* The query engine over every row, with and without pagination.
\* The raw messages of a session: the role is one the parser knows, another
\* one or none (""), and the content is a string (`textual`) or is not.
RawMessages ==
    {[role |-> r, textual |-> TRUE, content |-> c] :
         r \in {"user", "assistant", "system", "User", ""}, c \in {"a", "b"}}
    \cup {[role |-> "user", textual |-> FALSE, content |-> "a"]}

MaxMessages == 3
RECURSIVE MessageLists(_)
MessageLists(n) ==
    IF n = 0 THEN {<<>>}
    ELSE MessageLists(n - 1)
         \cup {Append(l, m) : l \in {k \in MessageLists(n - 1) : Len(k) = n - 1},
                              m \in RawMessages}

\* The arrays handed to parseSessionData: one session with any messages, or
\* a list of the stored sessions.
RawData ==
    {<<[id |-> "s1", createdAt |-> 1, messages |-> ms]>> :
         ms \in MessageLists(MaxMessages)}
    \cup SessionLists(MaxListLen)

\* new SessionDataParser({strictMode, allowEmptySessions: false,
\* requireSessionId: false}).parseSessionData(rawData); `parsed` holds what
\* parseIndividualSession made of each entry.
ParseSessionData(strictMode, rawData) ==
    /\ probe.fn = "none"
    /\ probe' = [fn |-> "parseSessionData",
                 input |-> [strictMode |-> strictMode, rawData |-> rawData],
                 output |-> [result |-> parseSessionData(strictMode, rawData),
                             parsed |-> [i \in DOMAIN rawData |->
                                 parseIndividualSession(strictMode,
                                                        rawData[i])]]]
    /\ UNCHANGED <<now, cb, calls, ret, failedRun, pending, queryFailRun,
                   nReader, rret, host, stored, reader>>
    /\ UNCHANGED <<files, conn, cret, lastFailAt, disposedSince, nConn, cm,
                   handles>>
    /\ UNCHANGED backoff
    /\ UNCHANGED fm

\* The entries of a raw array: sessions with an array of messages, and a
\* session with something else in its place.
RawEntries ==
    {Entry(s, "array") : s \in {Session1, Session2, Session3, Session4}}
    \cup {Entry(Session1, v) : v \in NonArrays}

RECURSIVE EntryLists(_)
EntryLists(n) ==
    IF n = 0 THEN {<<>>}
    ELSE EntryLists(n - 1)
         \cup {Append(l, e) : l \in {k \in EntryLists(n - 1) : Len(k) = n - 1},
                              e \in RawEntries}

\* new SessionDataParser(options).parseSessionData(entries)
ParseWith(options, entries) ==
    /\ probe.fn = "none"
    /\ probe' = [fn |-> "parseWith",
                 input |-> [options |-> options, entries |-> entries],
                 output |-> [result |-> parseWith(options, entries),
                             parsed |-> [i \in DOMAIN entries |->
                                 parseEntry(options, entries[i])]]]
    /\ UNCHANGED <<now, cb, calls, ret, failedRun, pending, queryFailRun,
                   nReader, rret, host, stored, reader>>
    /\ UNCHANGED <<files, conn, cret, lastFailAt, disposedSince, nConn, cm,
                   handles>>
    /\ UNCHANGED backoff
    /\ UNCHANGED fm

NextParse ==
    \/ \E strictMode \in BOOLEAN, rawData \in RawData :
           ParseSessionData(strictMode, rawData)
    \/ \E strictMode \in BOOLEAN, allowEmptySessions \in BOOLEAN,
          requireSessionId \in BOOLEAN, entries \in EntryLists(MaxListLen) :
           ParseWith(ValidationOptions(strictMode, allowEmptySessions,
                                       requireSessionId),
                     entries)

SpecParse == Init /\ [][NextParse]_vars

\* Workspace paths are sequences of characters; the absolute ones start with
\* the separator.
PathChars == {"/", "a", "A", "."}
MaxPathLen == 5
RECURSIVE PathsUpTo(_)
PathsUpTo(n) ==
    IF n = 1 THEN {<<"/">>}
    ELSE PathsUpTo(n - 1)
         \cup {Append(p, c) : p \in {q \in PathsUpTo(n - 1) : Len(q) = n - 1},
                              c \in PathChars}
AbsolutePaths == PathsUpTo(MaxPathLen)

\* path.resolve(p) for an absolute path: the segments between separators,
\* without the empty ones and '.', each '..' taking the segment before it
\* away, joined again behind single separators.
RECURSIVE segmentsOf(_, _)
segmentsOf(p, current) ==
    IF p = <<>> THEN <<current>>
    ELSE IF Head(p) = "/"
    THEN <<current>> \o segmentsOf(Tail(p), <<>>)
    ELSE segmentsOf(Tail(p), Append(current, Head(p)))

RECURSIVE normalizeSegments(_, _)
normalizeSegments(segments, kept) ==
    IF segments = <<>> THEN kept
    ELSE IF Head(segments) \in {<<>>, <<".">>}
    THEN normalizeSegments(Tail(segments), kept)
    ELSE IF Head(segments) = <<".", ".">>
    THEN normalizeSegments(Tail(segments),
                           SubSeq(kept, 1, Len(kept) - 1))
    ELSE normalizeSegments(Tail(segments), Append(kept, Head(segments)))

RECURSIVE joinSegments(_)
joinSegments(segments) ==
    IF segments = <<>> THEN <<>>
    ELSE <<"/">> \o Head(segments) \o joinSegments(Tail(segments))

resolve(p) ==
    IF normalizeSegments(segmentsOf(p, <<>>), <<>>) = <<>> THEN <<"/">>
    ELSE joinSegments(normalizeSegments(segmentsOf(p, <<>>), <<>>))

\* String.prototype.toLowerCase()
toLowerCase(p) == [i \in DOMAIN p |-> IF p[i] = "A" THEN "a" ELSE p[i]]

\* crypto.createHash('md5').update(input).digest('hex'): 32 characters that
\* stand for the input, different inputs taken to give different digests.
md5(input) == [digest |-> "md5", of |-> input]

generateWorkspaceId_HashesRawPath(workspacePath) == md5(workspacePath)

\* WorkspaceResolver.generateWorkspaceId(workspacePath)
generateWorkspaceId(workspacePath) == md5(toLowerCase(resolve(workspacePath)))

GenerateWorkspaceId(workspacePath) ==
    /\ probe.fn = "none"
    /\ probe' = [fn |-> "generateWorkspaceId", input |-> workspacePath,
                 output |-> generateWorkspaceId(workspacePath)]
    /\ UNCHANGED <<now, cb, calls, ret, failedRun, pending, queryFailRun,
                   nReader, rret, host, stored, reader>>
    /\ UNCHANGED <<files, conn, cret, lastFailAt, disposedSince, nConn, cm,
                   handles>>
    /\ UNCHANGED backoff
    /\ UNCHANGED fm

NextWorkspaceId == \E p \in AbsolutePaths : GenerateWorkspaceId(p)

SpecWorkspaceId == Init /\ [][NextWorkspaceId]_vars

NextFiles ==
    \/ \E w \in Writers, content \in Contents : WriteSession(w, content)
    \/ \E w \in Writers : GenerateFileName(w)
    \/ \E w \in Writers : FileExists(w)
    \/ \E w \in Writers : WriteTemp(w)
    \/ \E w \in Writers : ReadTemp(w)
    \/ \E w \in Writers : RenameTemp(w)
    \/ \E w \in Writers : UnlinkTemp(w)
    \/ \E w \in Writers : StatFile(w)
    \/ MsPasses

SpecFiles == Init /\ [][NextFiles]_vars

\* The dates getSessionsSince is asked for.
SinceDates == {1, 2, 3}

\* getSessionsSince(sinceDate) called on the query engine.
QuerySince(sinceDate, outcome) ==
    LET result == getSessionsSince(Sys(reader, World(cm, handles)),
                                   Env(host, files, stored, now),
                                   outcome, sinceDate)
    IN  /\ reader' = result.x.r
        /\ cm' = result.x.w.cm
        /\ handles' = result.x.w.handles
        /\ probe' = [fn |-> "getSessionsSince",
                     input |-> [row |-> stored, sinceDate |-> sinceDate],
                     output |-> [success |-> result.success,
                                 sessions |-> result.sessions]]
        /\ UNCHANGED <<now, cb, calls, ret, failedRun, pending, queryFailRun,
                       nReader, rret, host, stored>>
        /\ UNCHANGED <<files, conn, cret, lastFailAt, disposedSince, nConn>>
        /\ UNCHANGED backoff
        /\ UNCHANGED fm

\* dispose() of the connection manager, with the getConnection calls that
\* are suspended at that moment put down.
DisposeDuringCalls ==
    /\ LET w == dispose(World(cm, handles))
       IN  cm' = w.cm /\ handles' = w.handles
    /\ disposedSince' = {p \in Paths : lastFailAt[p] # 0}
    /\ probe' = [fn |-> "dispose",
                 input |-> {k \in ConnIds : conn[k].pc # "idle"},
                 output |-> <<>>]
    /\ UNCHANGED <<now, files, conn, cret, lastFailAt, nConn>>
    /\ UNCHANGED breakerVars
    /\ UNCHANGED readerVars
    /\ UNCHANGED backoff
    /\ UNCHANGED fm

\* The connection manager until its dispose() and after it: getConnection is
\* called before dispose() only, and the calls in flight run to their end.
NextDispose ==
    \/ \E k \in ConnIds, p \in ConnPaths :
           probe.fn = "none" /\ GetConnection(k, p)
    \/ \E k \in ConnIds : ValidateFile(k)
    \/ \E k \in ConnIds, o \in OpenOutcomes : FinishGetConnection(k, o)
    \/ probe.fn = "none" /\ DisposeDuringCalls
    \/ \E p \in ChangingPaths, f \in FileKinds : FileChanges(p, f)

SpecDispose == Init /\ [][NextDispose]_vars

NextQuery ==
    \/ \E v \in QueryRows : StoredChanges(v)
    \/ \E o \in 0..MaxPage, n \in 0..MaxPage, x \in ReaderOpenOutcomes :
           QuerySessions(o, n, x)
    \/ \E d \in SinceDates, x \in ReaderOpenOutcomes : QuerySince(d, x)
    \/ ReaderTick

SpecQuery == Init /\ [][NextQuery]_vars

\* The connection manager under concurrent getConnection calls.
NextConn ==
    \/ \E k \in ConnIds, p \in ConnPaths : GetConnection(k, p)
    \/ \E k \in ConnIds : ValidateFile(k)
    \/ \E k \in ConnIds, o \in OpenOutcomes : FinishGetConnection(k, o)
    \/ \E p \in ConnPaths : CloseConnection(p)
    \/ DisposeManager
    \/ \E p \in ChangingPaths, f \in FileKinds : FileChanges(p, f)
    \/ \E x \in handles.live : HandleBreaks(x.id)
    \/ \E x \in handles.live : HandleSticks(x.id)
    \/ ConnTick

SpecConn == Init /\ [][NextConn]_vars

\* The Reader and its environment.
NextReader ==
    \/ \E c \in ReaderCallIds, op \in SessionOps, o \in ReaderOpenOutcomes :
           ReaderCall(c, op, o)
    \/ \E c \in ReaderCallIds, o \in ReaderOpenOutcomes :
           ReaderOperationResolves(c, o)
    \/ GetSystemHealth
    \/ \E o \in ReaderOpenOutcomes : TestConnection(o)
    \/ ReaderDispose
    \/ \E v \in StoredValues : StoredChanges(v)
    \/ \E p \in ChangingPaths, f \in ReaderFileKinds : FileChanges(p, f)
    \/ \E x \in handles.live : HandleBreaks(x.id)
    \/ ReaderTick

SpecReader == InitReader /\ [][NextReader]_vars

----------------------------------------------------------------------------
(* Steps of the breaker, read off the counters only execute(), onFailure()
   and onSuccess() advance *)

ExecuteStarts == cb'.totalCalls = cb.totalCalls + 1
FailureAccounted == cb'.totalFailures = cb.totalFailures + 1
SuccessAccounted == cb'.totalSuccesses = cb.totalSuccesses + 1
\* A step of reset(): the counters of the current period are cleared while the
\* lifetime totals stay.
ResetStep == cb' = reset(cb) /\ cb' # cb

----------------------------------------------------------------------------
(* C1: an execute call that starts while the breaker is OPEN and less than
   resetTimeout has elapsed since the last recorded failure returns a failure
   result without invoking the operation even once, and leaves the breaker
   OPEN; after failureThreshold consecutive failed execute calls the breaker
   is OPEN for as long as resetTimeout has not elapsed since the last failure,
   so the next call made in that time is rejected this way. *)
C1_OpenRejectsWithoutInvoking ==
    /\ [][(ExecuteStarts /\ cb.state = OPEN
             /\ now - cb.lastFailureTime < resetTimeout)
          => (/\ ret'.rejected /\ ~ret'.success /\ ret'.invoked = 0
              /\ ret'.circuitState = OPEN
              /\ calls' = calls
              /\ cb'.state = OPEN)]_vars
    /\ []((failedRun >= failureThreshold
             /\ now - cb.lastFailureTime < resetTimeout)
          => cb.state = OPEN)

C1_Witness ==
    /\ failedRun >= failureThreshold
    /\ cb.state = OPEN
    /\ now - cb.lastFailureTime < resetTimeout
    /\ ret.rejected /\ ret.invoked = 0
    /\ cb.totalCalls = failureThreshold + 1

(* C2: driven by operation outcomes alone, the breaker leaves CLOSED for OPEN
   exactly at the failed execute call that brings the failure counter to
   failureThreshold: CLOSED -> OPEN happens only in a step that accounts a
   failure and raises the counter by one to failureThreshold, a failure that
   raises the counter to failureThreshold in CLOSED opens the breaker, and
   the breaker is never CLOSED with a counter >= failureThreshold. *)
C2_ClosedToOpenExactlyAtThreshold ==
    /\ [](cb.state = CLOSED => cb.failureCount < failureThreshold)
    /\ [][(cb.state = CLOSED /\ cb'.state = OPEN)
          => (/\ FailureAccounted
              /\ cb'.failureCount = cb.failureCount + 1
              /\ cb'.failureCount = failureThreshold
              /\ ~ret'.success /\ ~ret'.rejected
              /\ ret'.circuitState = OPEN)]_vars
    /\ [][(cb.state = CLOSED /\ FailureAccounted
             /\ cb.failureCount + 1 >= failureThreshold)
          => cb'.state = OPEN]_vars

C2_Witness ==
    /\ cb.state = OPEN
    /\ cb.failureCount = failureThreshold
    /\ cb.totalFailures = failureThreshold
    /\ ~ret.success /\ ~ret.rejected /\ ret.circuitState = OPEN

(* C3: whenever an execute call completes with failure while the breaker is
   HALF_OPEN, the breaker is OPEN when that call returns, whatever the value
   of the failure counter and however HALF_OPEN was reached. *)
C3_HalfOpenFailureOpens ==
    [][(cb.state = HALF_OPEN /\ FailureAccounted) => cb'.state = OPEN]_vars

(* C10: the breaker leaves OPEN only for HALF_OPEN at the start of an execute
   call made when at least resetTimeout has elapsed since the last recorded
   failure (or manual open()), or by reset(); no other step, and no passage
   of time alone, takes it out of OPEN. *)
C10_OpenLeftOnlyAfterResetTimeout ==
    /\ [][(cb.state = OPEN /\ cb'.state # OPEN)
          => \/ /\ cb'.state = HALF_OPEN
                /\ ExecuteStarts
                /\ cb.lastFailureTime # 0
                /\ now - cb.lastFailureTime >= resetTimeout
             \/ cb' = reset(cb)]_vars
    /\ [][now' # now => cb' = cb]_vars

C10_Witness ==
    /\ cb.state = HALF_OPEN
    /\ cb.lastFailureTime # 0
    /\ now - cb.lastFailureTime >= resetTimeout
    /\ \E c \in CallIds : calls[c].pc = "run"

----------------------------------------------------------------------------
(* Steps of the connection manager *)

\* A getConnection(p) call starts: it suspends in the validation, or returns
\* at once.
StartsFor(p) ==
    /\ nConn' = nConn + 1
    /\ \/ \E k \in ConnIds : /\ conn[k].pc = "idle"
                             /\ conn'[k].pc = "validating"
                             /\ conn'[k].path = p
       \/ conn' = conn /\ cret'.path = p

\* The call returns the cool-down failure and touches nothing.
FailsFast ==
    /\ conn' = conn
    /\ cret'.kind = "cooldown" /\ ~cret'.success
    /\ cm' = cm
    /\ handles' = handles

FailedRecently(p) == lastFailAt[p] # 0 /\ now - lastFailAt[p] < RETRY_DELAY

(* C6: at every moment and under every interleaving of concurrent
   getConnection calls, every live handle is the one registered in the pool
   for its path, so there is at most one live handle per path. *)
C6_OneLiveHandlePerPath ==
    \A x \in handles.live : cm.activeConnections[x.path] = x.id

(* C8, as claimed: after a getConnection(P) attempt fails at time t, every
   getConnection(P) call started before t + RETRY_DELAY returns failure
   immediately, without validating, opening a handle or changing the pool or
   the recorded timestamp. *)
C8_CoolDownAfterEveryFailure ==
    [][\A p \in Paths : (StartsFor(p) /\ FailedRecently(p)) => FailsFast]_vars

(* C8, amended: the same, provided dispose() has not been called since that
   failure; and a call for a path with no failed attempt in the last
   RETRY_DELAY does not get the cool-down failure, whatever happened to the
   other paths. *)
C8_CoolDownUnlessDisposed ==
    /\ [][\A p \in Paths :
            (StartsFor(p) /\ FailedRecently(p) /\ p \notin disposedSince)
            => FailsFast]_vars
    /\ [][\A p \in Paths :
            (StartsFor(p) /\ ~FailedRecently(p))
            => ~(conn' = conn /\ cret'.kind = "cooldown")]_vars

C8_Witness ==
    /\ cret.kind = "cooldown"
    /\ cret.path = "P"
    /\ FailedRecently("P")
    /\ "P" \notin disposedSince
    /\ ~FailedRecently("Q")
    /\ \E k \in ConnIds : conn[k].pc = "validating" /\ conn[k].path = "Q"

(* C9: getConnection never opens a handle on a file that fails validation.
   A missing path, a directory, an unreadable file and a file whose first 15
   bytes are not the signature all fail validation; a call whose validation
   failed returns failure, opens nothing and leaves the pool as it was; and a
   handle is only ever opened by a call whose validation passed. *)
C9_NoOpenOnInvalidFile ==
    /\ [][\A k \in ConnIds :
            (conn[k].pc = "validating" /\ conn'[k].pc = "validated")
            => (conn'[k].accessible <=> files[conn[k].path] = ValidFile)]_vars
    /\ [][\A k \in ConnIds :
            (conn[k].pc = "validated" /\ ~conn[k].accessible
               /\ conn'[k].pc = "idle")
            => (/\ ~cret'.success
                /\ cret'.path = conn[k].path
                /\ handles' = handles
                /\ cm'.activeConnections = cm.activeConnections)]_vars
    /\ [][handles'.opened # handles.opened
          => \E k \in ConnIds : /\ conn[k].pc = "validated"
                                /\ conn[k].accessible
                                /\ conn'[k].pc = "idle"]_vars

C9_Witness ==
    /\ cret.kind = "inaccessible"
    /\ files[cret.path] = NotSQLiteFile
    /\ cm.activeConnections[cret.path] = 0
    /\ handles.opened = 0

----------------------------------------------------------------------------
(* The Reader's results *)

SessionOpNames == {op.name : op \in SessionOps}

\* A session call of the Reader returns after a failed query step.
QueryFailureReturned == queryFailRun' = queryFailRun + 1

\* C4: with the circuit breaker enabled, session calls of the Reader whose
\* connection or query fails open the breaker: the call that makes
\* failureThreshold such failures in a row leaves the breaker OPEN.
C4_ReaderFailuresOpenBreaker ==
    [][(reader.enableCircuitBreaker
        /\ QueryFailureReturned
        /\ queryFailRun' >= failureThreshold)
       => cb'.state = OPEN]_vars

\* C5: a session call that was not rejected reports success exactly when the
\* query and the parse both succeeded, and an error whenever one of them
\* failed, with the circuit breaker enabled as with it disabled.
C5_SameSuccessFlagWithBreaker ==
    (rret.op \in SessionOpNames /\ ~rret.rejected)
        => /\ rret.success = rret.internal
           /\ ~rret.internal => rret.hasError

\* C7: no public operation of the Reader raises; each returns a result.
C7_NoPublicOperationRaises == ~rret.raised

----------------------------------------------------------------------------
(* The breaker's recovery and its manual controls *)

(* C11, as stated: every step from HALF_OPEN to CLOSED is taken with the
   consecutive-success counter reaching successThreshold, and clears the
   failure counter and the consecutive-success counter; a success in
   HALF_OPEN that leaves the counter below successThreshold keeps the breaker
   HALF_OPEN. *)
C11_HalfOpenClosesOnlyAtThreshold ==
    /\ [][(cb.state = HALF_OPEN /\ cb'.state = CLOSED)
          => (/\ SuccessAccounted
              /\ cb.consecutiveSuccesses + 1 >= successThreshold
              /\ cb'.failureCount = 0
              /\ cb'.consecutiveSuccesses = 0)]_vars
    /\ [][(cb.state = HALF_OPEN /\ SuccessAccounted
             /\ cb.consecutiveSuccesses + 1 < successThreshold)
          => (cb'.state = HALF_OPEN
              /\ cb'.consecutiveSuccesses = cb.consecutiveSuccesses + 1)]_vars

(* C11, amended: apart from a manual reset(), every step from HALF_OPEN to
   CLOSED is a recorded success with the consecutive-success counter reaching
   successThreshold; either way the step clears the failure counter and the
   consecutive-success counter; a success in HALF_OPEN that leaves the
   counter below successThreshold keeps the breaker HALF_OPEN. *)
C11_HalfOpenClosesAtThresholdOrReset ==
    /\ [][(cb.state = HALF_OPEN /\ cb'.state = CLOSED)
          => (/\ ResetStep
                 \/ (SuccessAccounted
                     /\ cb.consecutiveSuccesses + 1 >= successThreshold)
              /\ cb'.failureCount = 0
              /\ cb'.consecutiveSuccesses = 0)]_vars
    /\ [][(cb.state = HALF_OPEN /\ SuccessAccounted
             /\ cb.consecutiveSuccesses + 1 < successThreshold)
          => (cb'.state = HALF_OPEN
              /\ cb'.consecutiveSuccesses = cb.consecutiveSuccesses + 1)]_vars

\* The breaker has just closed on the successThreshold-th success of a
\* recovery that started from failureThreshold failures.
C11_Witness ==
    /\ cb.state = CLOSED
    /\ ret.success /\ ret.circuitState = CLOSED
    /\ cb.totalFailures >= failureThreshold
    /\ cb.successCount = successThreshold
    /\ cb.totalSuccesses = successThreshold
    /\ cb.consecutiveSuccesses = 0
    /\ cb.failureCount = 0

(* C12: a failure accounted more than monitoringWindow after the previous
   failure does not add to the earlier failures: the failure counter restarts
   at 1 (and so the breaker, CLOSED before, stays CLOSED), even when no
   successful call happened in between. *)
C12_OldFailuresDoNotAccumulate ==
    [][(FailureAccounted
        /\ cb.lastFailureTime # 0
        /\ now - cb.lastFailureTime > monitoringWindow)
       => (cb'.failureCount = 1
           /\ (cb.state = CLOSED => cb'.state = CLOSED))]_vars

----------------------------------------------------------------------------
(* Retries *)

\* Call c returns in this step.
Returns(c) == calls[c].pc = "run" /\ calls'[c].pc = "idle"

(* C13: every admitted execute call returns, provided each attempt of the
   operation settles, after invoking the operation at most maxRetries + 1
   times: it returns at its first successful attempt and reports that
   attempt's index, and it reports failure only after maxRetries + 1 failed
   attempts. *)
C13_AdmittedCallTerminates ==
    /\ \A c \in CallIds : (calls[c].pc # "idle") ~> (calls[c].pc = "idle")
    /\ [](\A c \in CallIds : calls[c].attempt <= maxRetries)
    /\ [][\A c \in CallIds :
            (Returns(c) /\ SuccessAccounted)
            => (/\ ret'.success /\ ret'.call = c
                /\ ret'.retryAttempt = calls[c].attempt
                /\ ret'.invoked = calls[c].attempt + 1)]_vars
    /\ [][\A c \in CallIds :
            (Returns(c) /\ ~SuccessAccounted)
            => (/\ ~ret'.success /\ ret'.call = c
                /\ FailureAccounted
                /\ calls[c].attempt = maxRetries
                /\ ret'.invoked = maxRetries + 1)]_vars

\* A call has succeeded on its last retry.
C13_Witness ==
    /\ ret.success
    /\ ret.retryAttempt = maxRetries
    /\ ret.invoked = maxRetries + 1
    /\ cb.totalSuccesses = 1

\* An attempt of call c fails and the call goes to sleep before its retry.
GoesToSleep(c) == calls[c].pc = "run" /\ calls'[c].pc = "sleep"
\* Call c wakes up and invokes the operation again.
WakesUp(c) == calls[c].pc = "sleep" /\ calls'[c].pc = "run"

(* C14: an execute call touches the breaker's accounting once, when it
   returns: a failed attempt that is retried and the retry itself leave every
   counter as it was; a call that failed on every attempt adds exactly 1 to
   the failure counter and to totalFailures and records no success; a call
   that succeeds, first time or on a retry, records exactly one success and
   no failure. *)
C14_OneAccountingPerCall ==
    /\ [][\A c \in CallIds : (GoesToSleep(c) \/ WakesUp(c)) => cb' = cb]_vars
    /\ [][\A c \in CallIds :
            (Returns(c) /\ ~ret'.success)
            => (/\ cb'.totalFailures = cb.totalFailures + 1
                /\ cb'.failureCount = cb.failureCount + 1
                /\ cb'.totalSuccesses = cb.totalSuccesses
                /\ cb'.successCount = cb.successCount)]_vars
    /\ [][\A c \in CallIds :
            (Returns(c) /\ ret'.success)
            => (/\ cb'.totalSuccesses = cb.totalSuccesses + 1
                /\ cb'.successCount = cb.successCount + 1
                /\ cb'.totalFailures = cb.totalFailures
                /\ cb'.failureCount <= cb.failureCount)]_vars

\* One call has failed on all its attempts and was counted as one failure.
C14_Witness ==
    /\ ~ret.success /\ ~ret.rejected
    /\ ret.invoked = maxRetries + 1
    /\ maxRetries >= 1
    /\ cb.totalFailures = 1
    /\ cb.failureCount = 1
    /\ cb.totalCalls = 1

Untouched(c) == calls'[c] = calls[c]

\* C16: a transition of the breaker to OPEN leaves every other call in flight
\* where it was; a call in flight ends only by returning its own outcome, a
\* success or a failure after maxRetries + 1 invocations, which the counters
\* record whatever the state of the breaker; and a rejection is only ever
\* given to a call that starts while the breaker is OPEN.
C16_OpeningDoesNotAbortAdmittedCalls ==
    /\ [][(cb.state # OPEN /\ cb'.state = OPEN)
          => \A c \in CallIds :
                 (calls[c].pc # "idle" /\ ~Returns(c)) => Untouched(c)]_vars
    /\ [][\A c \in CallIds :
              (calls[c].pc # "idle" /\ calls'[c].pc = "idle")
              => /\ ret'.call = c
                 /\ ~ret'.rejected
                 /\ ret'.success => SuccessAccounted
                 /\ ~ret'.success => /\ FailureAccounted
                                     /\ ret'.invoked = maxRetries + 1]_vars
    /\ [][(ret'.rejected /\ ret' # ret)
          => /\ ExecuteStarts
             /\ cb.state = OPEN
             /\ calls[ret'.call].pc = "idle"
             /\ Untouched(ret'.call)]_vars

\* The breaker was opened while a call was in flight, and that call went on
\* to its last attempt, succeeded there and was counted.
C16_Witness ==
    /\ cb.state = OPEN
    /\ ret.success
    /\ ret.circuitState = OPEN
    /\ ret.invoked = maxRetries + 1
    /\ maxRetries >= 1
    /\ cb.totalSuccesses = 1
    /\ cb.totalCalls = 1

\* Every failure the operations will ever produce is behind the breaker.
OperationsRecovered == ~OperationsStillFail

\* C17: once the operations only succeed, an OPEN breaker whose reset timeout
\* lies within the time modelled sees that timeout elapse; an OPEN breaker
\* whose timeout has elapsed, with successThreshold calls still to come, gets
\* CLOSED; it leaves OPEN for HALF_OPEN only; and once CLOSED it stays CLOSED.
C17_OpenBreakerRecovers ==
    /\ (/\ cb.state = OPEN
        /\ OperationsRecovered
        /\ cb.lastFailureTime + resetTimeout <= MaxTime)
       ~> (cb.state # OPEN \/ shouldAttemptReset(cb, now))
    /\ (/\ cb.state = OPEN
        /\ OperationsRecovered
        /\ shouldAttemptReset(cb, now)
        /\ MaxCalls - cb.totalCalls >= successThreshold)
       ~> (cb.state = CLOSED)
    /\ [][cb.state = OPEN => cb'.state \in {OPEN, HALF_OPEN}]_vars
    /\ []((cb.state = CLOSED /\ OperationsRecovered) => [](cb.state = CLOSED))

\* The breaker opened on failureThreshold failed calls, and successThreshold
\* calls after the reset timeout closed it again.
C17_Witness ==
    /\ cb.state = CLOSED
    /\ OperationsRecovered
    /\ cb.totalCalls = failureThreshold + successThreshold
    /\ cb.totalSuccesses = successThreshold
    /\ ret.success
    /\ cb.consecutiveSuccesses = 0
    /\ now - cb.lastFailureTime >= resetTimeout
    /\ \A c \in CallIds : calls[c].pc = "idle"

\* C18: in every reachable state, reset() gives a CLOSED breaker whose failure,
\* success and consecutive-success counters are zero and that has no
\* last-failure time, and open() gives an OPEN breaker whose last-failure
\* time is the time of the call, so that a reset is due exactly from
\* resetTimeout after the call; an execute call made while the breaker is
\* OPEN and before that is rejected and leaves the breaker OPEN.
C18_ManualResetAndOpen ==
    /\ [](/\ reset(cb).state = CLOSED
          /\ reset(cb).failureCount = 0
          /\ reset(cb).successCount = 0
          /\ reset(cb).consecutiveSuccesses = 0
          /\ reset(cb).lastFailureTime = 0)
    /\ [](/\ open(cb, now).state = OPEN
          /\ open(cb, now).lastFailureTime = now
          /\ \A t \in now..(now + resetTimeout) :
                 shouldAttemptReset(open(cb, now), t)
                 <=> (t - now >= resetTimeout))
    /\ [][(/\ cb.state = OPEN
           /\ cb.lastFailureTime # 0
           /\ now - cb.lastFailureTime < resetTimeout
           /\ ExecuteStarts)
          => /\ ret'.rejected
             /\ cb'.state = OPEN
             /\ cb'.lastFailureTime = cb.lastFailureTime
             /\ calls' = calls]_vars

\* reset() cleared the success counter of a breaker that had succeeded, open()
\* then opened it without any failure, and a call within resetTimeout of
\* open() was rejected.
C18_Witness ==
    /\ cb.state = OPEN
    /\ cb.totalSuccesses >= 1
    /\ cb.successCount = 0
    /\ cb.totalFailures = 0
    /\ cb.lastFailureTime # 0
    /\ now - cb.lastFailureTime < resetTimeout
    /\ ret.rejected

\* The pool entry of path p, and what getConnection(p) does up to its first
\* suspension when called now.
Pooled(p) == cm.activeConnections[p]
Begins(p) == getConnectionBegin(World(cm, handles), p, now)

\* C19: whenever the pool holds a handle for a path that is not in cool-down,
\* getConnection for that path returns that handle and changes nothing if
\* the handle passes the health check, and otherwise closes the handle and
\* deletes its pool entry while no new handle has been opened yet; a call
\* that returns at once on a healthy pooled handle opens nothing.
C19_PooledHandleReusedOrDiscarded ==
    /\ [](\A p \in ConnPaths :
              (Pooled(p) # 0 /\ ~inCoolDown(cm, p, now))
              => IF isConnectionValid(Pooled(p), handles)
                 THEN /\ Begins(p).kind = "pooled"
                      /\ Begins(p).handle = Pooled(p)
                      /\ Begins(p).w = World(cm, handles)
                 ELSE /\ Begins(p).kind = "validate"
                      /\ Begins(p).w.cm.activeConnections[p] = 0
                      /\ \A x \in Begins(p).w.handles.live : x.id # Pooled(p)
                      /\ Begins(p).w.handles.opened = handles.opened)
    /\ [][(/\ nConn' = nConn + 1
           /\ conn' = conn
           /\ Pooled(cret'.path) # 0
           /\ ~inCoolDown(cm, cret'.path, now)
           /\ isConnectionValid(Pooled(cret'.path), handles))
          => /\ cret'.success
             /\ cret'.handle = Pooled(cret'.path)
             /\ cm' = cm
             /\ handles' = handles]_vars

\* A call found the pooled handle of P unusable and closed it, and the call
\* then opened the second handle, which is the one pooled now.
C19_Witness ==
    /\ handles.opened = 2
    /\ Pooled("P") = 2
    /\ handles.live = {[id |-> 2, path |-> "P"]}
    /\ cret.success
    /\ cret.kind = "opened"
    /\ nConn = 2

\* What dispose() makes of the manager when called now.
Disposed == dispose(World(cm, handles))

\* dispose() returned d: nothing thrown, pool and failed-attempt table empty,
\* no handle of the pool left live, and getConnection goes on to validate.
ClosedAndCleared(d) ==
    /\ ~d.thrown
    /\ \A p \in Paths :
           /\ d.cm.activeConnections[p] = 0
           /\ d.cm.lastConnectionAttempt[p] = 0
           /\ \A x \in d.handles.live : x.id # Pooled(p)
           /\ getConnectionBegin(d, p, now).kind = "validate"

\* C20: in every reachable state dispose() returns, and after it every handle
\* that was in the pool has had its close() called, also when the close() of
\* one of them throws, the pool is empty and the failed-attempt table is
\* empty, so that getConnection for any path goes on to validate the file
\* even inside the cool-down of an earlier failure.
C20_DisposeClosesAndClears == ClosedAndCleared(Disposed)

\* dispose() ran while a path was in its cool-down, and the handle whose
\* close() throws is out of the pool like every other.
C20_Witness ==
    /\ \E h \in handles.stuck : \A x \in handles.live : x.id # h
    /\ handles.live = {}
    /\ \A p \in Paths : Pooled(p) = 0 /\ cm.lastConnectionAttempt[p] = 0
    /\ \E p \in ConnPaths : p \in disposedSince /\ now - lastFailAt[p] < RETRY_DELAY

\* What DatabaseReader.dispose() makes of the Reader when called now.
ReaderDisposed == disposeReader(Sys(reader, World(cm, handles)))

\* C21: in every reachable state, after Reader.dispose() the pool is empty
\* and none of its handles is live, the failed-attempt table of the manager
\* is empty, and the prepared statement, the workspace cache and the platform
\* configuration are cleared.
C21_ReaderDisposeTearsDownAll ==
    /\ \A p \in Paths :
           /\ ReaderDisposed.w.cm.activeConnections[p] = 0
           /\ \A x \in ReaderDisposed.w.handles.live : x.id # Pooled(p)
           /\ ReaderDisposed.w.cm.lastConnectionAttempt[p] = 0
    /\ ReaderDisposed.r.preparedStatement = 0
    /\ ReaderDisposed.r.workspaceCache = NoWorkspaceInfo
    /\ ReaderDisposed.r.platformConfig = "null"

\* getWorkspaceInfo called now, with the workspace cache as it is and with
\* the cache emptied first.
WithCache == getWorkspaceInfo(reader, Env(host, files, stored, now))
Uncached == getWorkspaceInfo(clearCache(reader), Env(host, files, stored, now))

\* C22: in every reachable state getWorkspaceInfo returns the validity flag
\* and the database path that a resolution without the workspace cache
\* returns at that moment.
C22_CacheNeverSourceOfTruth ==
    /\ WithCache.isValid = Uncached.isValid
    /\ WithCache.databasePath = Uncached.databasePath

\* Sequence s is an initial part of sequence t.
IsPrefix(s, t) == Len(s) <= Len(t) /\ s = SubSeq(t, 1, Len(s))

\* C23: testConnection calls the layers in the order platform resolution,
\* workspace resolution, database connection, session query, data parsing;
\* a layer that fails is the last one called and has its entry in the error
\* list, and the layers before it are reported as passed.
C23_SelfTestStopsAtFirstFailure ==
    rret.op = "testConnection"
    => /\ IsPrefix(rret.exercised, TEST_LAYERS)
       /\ \A i \in 1..Len(rret.exercised) :
              rret.exercised[i] \notin rret.passed
              => /\ Len(rret.exercised) = i
                 /\ \E j \in 1..Len(rret.errors) :
                        rret.errors[j] = rret.exercised[i]
                 /\ \A k \in 1..(i - 1) : rret.exercised[k] \in rret.passed

\* The result of the query engine on a row, where the connection worked.
Queried(kinds) ==
    /\ probe.fn = "getInteractiveSessions"
    /\ probe.input.row.kind \in kinds
    /\ probe.output.error
           \notin {"Failed to establish database connection",
                   "Database query failed"}

\* C24: without a row under the key the query succeeds with the empty list;
\* with a row whose value is not JSON, or is JSON but not an array, the query
\* fails with an error.
C24_AbsenceDistinctFromBadData ==
    /\ Queried({"norow"})
       => /\ probe.output.success
          /\ probe.output.sessions = <<>>
          /\ probe.output.error = "none"
    /\ Queried({"empty", "text", "object"})
       => /\ ~probe.output.success
          /\ probe.output.error # "none"

\* The elements of list l at positions o .. o + n - 1, counted from 0.
Page(l, o, n) ==
    [i \in 1..(IF Len(l) - o < n THEN (IF Len(l) > o THEN Len(l) - o ELSE 0)
               ELSE n) |-> l[o + i]]

\* C25: getInteractiveSessions({offset: o, limit: n}) on a stored list gives
\* the elements at positions o .. o + n - 1 in stored order, fewer where the
\* list ends earlier and none for n = 0, and total is the length of the list.
C25_PaginationWindow ==
    (Queried({"array"}) /\ probe.output.success)
    => /\ probe.output.sessions
           = Page(probe.input.row.sessions, probe.input.offset,
                  probe.input.limit)
       /\ probe.output.total = Len(probe.input.row.sessions)

----------------------------------------------------------------------------
(* Validation of messages and sessions *)

\* C26: a parsed session holds only messages whose role is user or assistant
\* and whose content is a string; in strict mode a session with an invalid
\* message is rejected; in lenient mode a session with a valid message is
\* accepted with exactly its valid messages, in their order.
C26_MessageValidity ==
    probe.fn = "parseSessionData" /\ Len(probe.input.rawData) = 1
    => LET raw == probe.input.rawData[1].messages
           valid == SelectSeq(raw, LAMBDA m : /\ m.role \in {"user", "assistant"}
                                              /\ m.textual)
           session == probe.output.parsed[1]
       IN  /\ session.success
              => \A i \in DOMAIN session.messages :
                     /\ session.messages[i].role \in {"user", "assistant"}
                     /\ session.messages[i].role # "system"
                     /\ session.messages[i].textual
           /\ probe.input.strictMode /\ valid # raw
              => /\ ~session.success
                 /\ probe.output.result.data = <<>>
           /\ ~probe.input.strictMode /\ valid # <<>>
              => /\ session.success
                 /\ session.messages = valid
                 /\ Len(probe.output.result.data) = 1

C26_Witness ==
    /\ probe.fn = "parseSessionData"
    /\ ~probe.input.strictMode
    /\ Len(probe.input.rawData) = 1
    /\ Len(probe.input.rawData[1].messages) = 3
    /\ probe.input.rawData[1].messages[1].role = "system"
    /\ probe.output.parsed[1].success
    /\ Len(probe.output.parsed[1].messages) = 2
    /\ probe.output.parsed[1].messages[1].content
           # probe.output.parsed[1].messages[2].content

\* C27: parseSessionData succeeds exactly when it accepted an entry; when it
\* accepted none it fails with an error; the accepted sessions are returned
\* in the order of the input.
C27_ParseSucceedsIffAccepted ==
    probe.fn = "parseSessionData"
    => LET raw == probe.input.rawData
           accepted == SelectSeq([i \in DOMAIN raw |-> i],
                           LAMBDA i : probe.output.parsed[i].success)
           result == probe.output.result
       IN  /\ result.success <=> accepted # <<>>
           /\ accepted = <<>> => ~result.success /\ result.error # "none"
           /\ result.data = [k \in DOMAIN accepted |->
                                 probe.output.parsed[accepted[k]].id]

C27_Witness ==
    /\ probe.fn = "parseSessionData"
    /\ probe.input.strictMode
    /\ probe.input.rawData = <<Session2, Session1>>
    /\ probe.output.result.success
    /\ probe.output.result.data = <<"s1">>

----------------------------------------------------------------------------
(* Workspace ids *)

\* A path without its trailing separator, the root excepted.
WithoutTrailingSeparator(p) ==
    IF Len(p) > 1 /\ p[Len(p)] = "/" THEN SubSeq(p, 1, Len(p) - 1) ELSE p

\* Two paths that differ at most by a trailing separator and by letter case.
SameButTrailingOrCase(p, q) ==
    /\ Len(WithoutTrailingSeparator(p)) = Len(WithoutTrailingSeparator(q))
    /\ \A i \in DOMAIN WithoutTrailingSeparator(p) :
           \/ WithoutTrailingSeparator(p)[i] = WithoutTrailingSeparator(q)[i]
           \/ {WithoutTrailingSeparator(p)[i],
               WithoutTrailingSeparator(q)[i]} = {"a", "A"}

\* C28: absolute workspace paths that differ only by a trailing separator or
\* by letter case get the same workspace id, and the id is the digest of the
\* canonical form of the path, so that paths with different canonical forms
\* are hashed from different inputs.
C28_WorkspaceIdOfCanonicalPath ==
    probe.fn = "generateWorkspaceId"
    => /\ \A q \in AbsolutePaths :
              SameButTrailingOrCase(probe.input, q)
              => generateWorkspaceId(q) = probe.output
       /\ probe.output.of = toLowerCase(resolve(probe.input))
       /\ \A q \in AbsolutePaths :
              toLowerCase(resolve(q)) # toLowerCase(resolve(probe.input))
              => generateWorkspaceId(q).of # probe.output.of

C28_Witness ==
    /\ probe.fn = "generateWorkspaceId"
    /\ probe.input = <<"/", "A", "/", "a", "/">>
    /\ probe.output = generateWorkspaceId(<<"/", "a", "/", "A">>)

----------------------------------------------------------------------------
(* Installations *)

\* C29: on darwin, win32 and linux the storage path resolution fails only if
\* the workspace storage of none of 'Code', 'Code - Insiders' and 'VSCodium'
\* is a readable directory; if that of 'Code' is not and that of an alternate
\* is, the first such alternate in list order is returned.
C29_FailureOnlyIfNoInstallation ==
    /\ rret.op = "testConnection"
    /\ host.platform \in SUPPORTED_PLATFORMS
    /\ host.platform = "win32" => host.appData
    => /\ TEST_LAYERS[1] \notin rret.passed
          => \A i \in 1..3 : CODE_FOLDERS[i] \notin host.dirs
       /\ /\ CODE_FOLDERS[1] \notin host.dirs
          /\ \E i \in 2..3 : CODE_FOLDERS[i] \in host.dirs
          => /\ getVSCodeStoragePath(reader, host).isValid
             /\ getVSCodeStoragePath(reader, host).folder
                    = IF CODE_FOLDERS[2] \in host.dirs
                      THEN CODE_FOLDERS[2] ELSE CODE_FOLDERS[3]

----------------------------------------------------------------------------
(* Export files *)

\* No writeSession call is between its call and its return.
NoWriteInFlight ==
    \A w \in Writers : fm.writes[w].pc \in {"idle", "returned"}

Written(w) == fm.writes[w].pc = "returned" /\ fm.writes[w].success

\* C30: writeSession never replaces an export file that exists; when the
\* calls made have returned, each successful one has a file of its own that
\* holds the content it was given, and no temporary file is left.
C30_NeverOverwritesExport ==
    /\ [][\A p \in FilePaths :
              contentAt(fm.files, p) # NoFile
              => contentAt(fm'.files, p) = contentAt(fm.files, p)]_vars
    /\ [](NoWriteInFlight
          => /\ \A w \in Writers :
                    Written(w)
                    => contentAt(fm.files, fm.writes[w].filePath)
                           = fm.writes[w].content
             /\ \A v, w \in Writers :
                    Written(v) /\ Written(w) /\ v # w
                    => fm.writes[v].filePath # fm.writes[w].filePath
             /\ fm.temps = {})

----------------------------------------------------------------------------
(* Sessions whose messages are not an array; warnings *)

\* C31: an entry whose `messages` is present and is not an array is refused
\* as a session under every combination of the validation options.
C31_NonArrayMessagesRejected ==
    probe.fn = "parseWith"
    => \A i \in DOMAIN probe.input.entries :
           probe.input.entries[i].messages \in NonArrays
           => ~probe.output.parsed[i].success

\* C32: in lenient mode each invalid message skipped in an accepted session
\* has a warning in the warnings of the result of parseSessionData.
C32_SkippedMessagesAreWarned ==
    probe.fn = "parseWith" /\ ~probe.input.options.strictMode
    => \A i \in DOMAIN probe.input.entries :
           /\ probe.input.entries[i].messages = "array"
           /\ probe.output.parsed[i].success
           => \A k \in DOMAIN probe.input.entries[i].session.messages :
                  ~parseIndividualMessage(
                       probe.input.entries[i].session.messages[k])
                  => \E j \in DOMAIN probe.output.result.warnings :
                         /\ probe.output.result.warnings[j].text
                                = "Skipped invalid message"
                         /\ probe.output.result.warnings[j].index = k - 1

----------------------------------------------------------------------------
(* Sessions since a date *)

\* C33: getSessionsSince(d) returns every stored session last modified on or
\* after d and no session last modified before d.
C33_SinceFiltersOnLastModified ==
    probe.fn = "getSessionsSince" /\ probe.output.success
    => /\ \A i \in DOMAIN probe.input.row.sessions :
              /\ probe.input.row.sessions[i].lastModified # 0
              /\ probe.input.row.sessions[i].lastModified
                     >= probe.input.sinceDate
              => \E j \in DOMAIN probe.output.sessions :
                     probe.output.sessions[j] = probe.input.row.sessions[i]
       /\ \A j \in DOMAIN probe.output.sessions :
              probe.output.sessions[j].lastModified >= probe.input.sinceDate

----------------------------------------------------------------------------
(* Prepared statements *)

\* The handle getCurrentWorkspaceConnection returns to a lookup started now,
\* and the handle whose statement the lookup then executes.
LookupConnection(outcome) ==
    getCurrentWorkspaceConnection(Sys(reader, World(cm, handles)),
                                  Env(host, files, stored, now), outcome)

StatementUsed(outcome) ==
    queryInteractiveSessionsRaw(LookupConnection(outcome).x,
                                LookupConnection(outcome).handle,
                                Env(host, files, stored, now))
        .x.r.preparedStatement

\* C34: a session lookup executes a statement prepared on the handle that
\* getConnection returned to it, also after the pooled handle was closed or
\* replaced.
C34_StatementOfReturnedHandle ==
    \A outcome \in ReaderOpenOutcomes :
        LookupConnection(outcome).success
        => StatementUsed(outcome) = LookupConnection(outcome).handle

----------------------------------------------------------------------------
(* Entering HALF_OPEN *)

\* C35: the breaker enters HALF_OPEN with its consecutive-success counter at
\* zero, so that only successes completed in HALF_OPEN count toward closing.
C35_HalfOpenStartsFromZero ==
    [][cb.state # HALF_OPEN /\ cb'.state = HALF_OPEN
       => cb'.consecutiveSuccesses = 0]_vars

----------------------------------------------------------------------------
(* Sessions by id; empty stores; the self-test *)

\* What getSessions() of the Reader finds now, and what getSessionById finds
\* right after it.
SessionsNow(outcome) ==
    getSessionsInternal(Sys(reader, World(cm, handles)),
                        Env(host, files, stored, now), outcome)

SessionByIdNow(outcome, sessionId) ==
    getSessionByIdInternal(SessionsNow(outcome).x,
                           Env(host, files, stored, now), outcome, sessionId)

\* C36: getSessionById(s.id) finds each session s that getSessions returned,
\* under the same id, whether the id was stored or made by the parser.
C36_ReturnedIdsCanBeLookedUp ==
    \A outcome \in ReaderOpenOutcomes :
        SessionsNow(outcome).success
        => \A j \in DOMAIN SessionsNow(outcome).sessions :
               /\ SessionByIdNow(outcome, SessionsNow(outcome).sessions[j])
                      .success
               /\ SessionByIdNow(outcome, SessionsNow(outcome).sessions[j])
                      .sessions
                      = <<SessionsNow(outcome).sessions[j]>>

C38_SelfTestPassesWhenLayersPass ==
    /\ rret.op = "testConnection"
    /\ \A i \in 1..4 : TEST_LAYERS[i] \in rret.passed
    => /\ TEST_LAYERS[5] \in rret.passed
       /\ rret.success
       /\ rret.errors = <<>>

----------------------------------------------------------------------------
(* dispose() during getConnection *)

\* C39: once dispose() has returned and the getConnection calls that were in
\* flight have completed, with no call started since, no handle is open and
\* none is registered in the pool.
C39_NoHandleLeftAfterDispose ==
    /\ probe.fn = "dispose"
    /\ \A k \in ConnIds : conn[k].pc = "idle"
    => /\ handles.live = {}
       /\ \A p \in Paths : cm.activeConnections[p] = 0

====
